---- MODULE Spec2Model ----
(***************************************************************************)
(* A model of the Starmap task dispatcher of openquake.baselib.parallel:   *)
(* the worker loop safely_call, the Result envelope, the dispatcher main   *)
(* loop Starmap._loop and the consumer side IterResult._iter.              *)
(*                                                                         *)
(* The ingress socket (openquake.baselib.zeromq.Socket) is not part of the *)
(* sources at hand: it is modelled as one FIFO channel per sender, read by *)
(* the dispatcher in any order across senders; a send never fails.         *)
(* ingress[s] holds the Results sender s has pushed and the dispatcher has *)
(* not read yet.                                                           *)
(***************************************************************************)
EXTENDS Integers, Sequences, FiniteSets, TLC

\* ---------------------------------------------------------------- bounds
MaxTasks == 2        \* largest len(task_args)
MaxCores == 2        \* largest Starmap.num_cores
MaxOuts == 1         \* most values/subtask-requests one task yields
MaxSubs == 1         \* most subtask-requests yielded in one job
MaxRetry == 2        \* cut of the endless failure loop of a mismatching worker
MaxUnread == 1       \* most unread Results of one worker on the ingress
MaxShards == 3       \* most shards split_task slices its elements into
MaxResults == 3      \* most results IterResult.reduce is given
MaxShared == 2       \* most SharedArrays created
MaxItems == 3        \* longest sequence given to Starmap.apply
MaxMsgs == 3         \* most ERROR/FATAL messages a supervised job logs
MaxHosts == 3        \* most hosts of config.zworkers.host_cores
MaxSends == 5        \* most tasks sent to the zmq workers
MaxTuple == 3        \* longest tuple a task produces
MaxVals == 2         \* most values a task produces
MaxElements == 5     \* most elements given to split_task
MaxIds == 3          \* most objects in memory at a call of pickle_sequence
MaxObjects == 3      \* longest sequence given to pickle_sequence
MaxArgs == 3         \* longest allargs given to multispawn

None == 0 - 1        \* Python's None where an integer is expected
calc_id == 1         \* Starmap.calc_id, taken from the name of the h5 file
other_calc_id == calc_id + 1   \* the calc_id of another job

TaskNos == 0 .. (MaxTasks + MaxSubs - 1)   \* values of Starmap.task_no at a dispatch
MemLevels == {"ok", "soft", "hard"}        \* outcomes of check_mem_usage
ExcKinds == {"ValueError", "KeyError", "KeyErrorSubclass"}  \* raised by tasks
Backends == {"no", "processpool", "threadpool", "zmq", "ipp"}
RemoteBackends == {"zmq", "ipp"}           \* their workers are on other hosts

VARIABLES
    distribute,   \* Starmap.distribute
    num_cores,    \* Starmap.num_cores
    task_args,    \* the task arguments, as the sequence <<1, .., n>>
    sized,        \* TRUE iff task_args has a len()
    OQ_TASK_NO,   \* the environment variable, None when unset
    mismatch,     \* TRUE iff the (remote) workers run another engine version
    split,        \* for a job of split_task: shards, the number of slices of
                  \* the elements of a task, and slowat, the first slice
                  \* after which dt > duration; NoSplit for any other job
    pc,           \* where the consumer/dispatcher is
    smap,         \* fields of the Starmap: task_queue, tasks, task_no, todo,
                  \* socket, prev_percent
    worker,       \* worker[t]: the safely_call of the task dispatched as t
    ingress,      \* ingress[s]: the unread Results of sender s, oldest first
    first_time,   \* IterResult._iter's flag "no memory warning logged yet"
    yielded,      \* yielded[t]: what the consumer was given from task t, in
                  \* order: the ordinal k of each value, 0 for a None
    error,        \* the exception raised to the consumer, or NoError
    put,          \* history: put[t] is what task t has sent to be yielded,
                  \* written as in yielded
    nreq,         \* history: the subtask-requests the main loop has queued
    red,          \* a call of IterResult.reduce: its arguments agg and acc,
                  \* the results in the order they arrive, and what it returned
    unpicklable,  \* the task arguments that pickle.dumps cannot serialize
    cls,          \* the attributes of the class Starmap (distribute, pool,
                  \* executor, pids, shared), the shared-memory buffers that
                  \* exist (linked) and the outcome of the last call
    call,         \* a function run by safely_call for a Starmap: the names
                  \* of the last parameter of Starmap.task_func and of the
                  \* function, monitor.inject, whether the monitor was appended
    app,          \* a call of Starmap.apply: its arguments allargs,
                  \* concurrent_tasks and maxweight, the blocks the splitter
                  \* produced and the task_args of the Starmap it returned
    sup,          \* supervise(pid, job_id): the job process, the status of
                  \* the job in the database, the queue of its ERROR/FATAL
                  \* messages, and what the supervisor has done
    zmq,          \* the zmq backend of a Starmap: monitor.host, the position
                  \* of the cycle ihost, and for each task sent the host
                  \* given to submit and the host the task was sent to
    made,         \* the Results made of what a task has produced: the values
                  \* produced, the kind of Result made of each, and the
                  \* exception that left Result.new, if one did
    st,           \* a run of the generator split_task: the number of its
                  \* elements, outs_per_task, the index i of its for loop,
                  \* the slices func was run on and the slices yielded as
                  \* subtask-requests, in order
    pk,           \* a call of pickle_sequence: the objects in memory (heap,
                  \* by id), the ids of its argument objects, the list out
                  \* it returned and the number of calls of pickle.dumps
    ms            \* a call of multispawn: num_cores, the arguments not yet
                  \* taken, the dict procs, the processes started (by
                  \* argument, in order) and those of them that are alive

vars == <<distribute, num_cores, task_args, sized, OQ_TASK_NO, mismatch,
          split, pc, smap, worker, ingress, first_time, yielded, error, put,
          nreq, red, unpicklable, cls, call, app, sup, zmq, made, st, pk, ms>>

\* what no step of a job changes: its inputs, and the other components
config == <<distribute, num_cores, task_args, sized, OQ_TASK_NO, mismatch,
            split, red, unpicklable, cls, call, app, sup, zmq, made, st, pk, ms>>

NoSplit == [shards |-> 0, slowat |-> 0]

\* Starmap.task_func
task_func == IF split = NoSplit THEN "task_func" ELSE "split_task"

\* ------------------------------------------------------------ sequences
Min(a, b) == IF a <= b THEN a ELSE b

IsPrefix(a, b) == Len(a) <= Len(b) /\ SubSeq(b, 1, Len(a)) = a
IsSuffix(a, b) == Len(a) <= Len(b) /\ SubSeq(b, Len(b) - Len(a) + 1, Len(b)) = a

\* ------------------------------------------------------ Result envelope
\* A Result: msg, tb_str and func as in the code; mon holds the calc_id and
\* the task_no of the monitor; the payload is abstracted to the ordinal k of
\* the yield that produced it and to the kind of the exception (etype);
\* len is len(res.pik).
ValueLen == 2        \* len(Pickled(val)) of a yielded value
NoneLen == 1         \* len(Pickled(None))
ArgsLen == 1         \* len(pickle_sequence(val[1:])): the number of arguments

NewResult(val, mon, tb_str, msg) ==
    [msg |-> msg, tb_str |-> tb_str,
     func |-> IF val.shape = "callable_tuple" THEN "func" ELSE "None",
     mon |-> mon, k |-> val.k, etype |-> val.etype,
     len |-> CASE val.shape = "callable_tuple" -> ArgsLen
               [] val.shape = "None" -> NoneLen
               [] OTHER -> ValueLen]

\* the bytes of the payload of a Result: len(res.pik) when pik is a Pickled,
\* sum(len(p) for p in res.pik), its nbytes['args'], when it is the list of
\* the pickled arguments of a subtask-request
ArgBytes == 3        \* len(Pickled(arg)) of an argument of a subtask
PayloadBytes(res) == IF res.func # "None" THEN ArgsLen * ArgBytes ELSE res.len

RECURSIVE SumBytes(_)
\* the bytes of the payloads of the Results q
SumBytes(q) == IF q = <<>> THEN 0 ELSE PayloadBytes(Head(q)) + SumBytes(Tail(q))

\* the values a Result is made of
NoneVal == [shape |-> "None", k |-> 0, etype |-> "none"]
Yielded(shape, k) == [shape |-> shape, k |-> k, etype |-> "none"]
Exc(kind) == [shape |-> "exception", k |-> 0, etype |-> kind]

Monitor(t) == [calc_id |-> calc_id, task_no |-> t]

\* only KeyError itself, not its subclasses
IsKeyErrorExact(etype) == etype = "KeyError"

IsKeyError(etype) == etype \in {"KeyError", "KeyErrorSubclass"}

\* Result.get: the value, or the exception to raise
ResultGet(res) ==
    IF res.tb_str # ""
    THEN [raise |-> IF IsKeyError(res.etype) THEN "RuntimeError" ELSE res.etype,
          msg |-> [tb_str |-> res.tb_str, name |-> res.etype,
                   val |-> res.mon.task_no]]
    ELSE [raise |-> "none", msg |-> [tb_str |-> "", name |-> "none", val |-> None]]

\* ----------------------------------------------------- ingress socket
\* zsocket.send(res) on the channel q of the sender
send(q, res) == Append(q, res)

\* next(isocket) on the channel q of one sender: the oldest unread Result
recv(q) == [res |-> Head(q), rest |-> Tail(q)]

\* --------------------------------------------------------- the worker
\* worker[t] is the activation of safely_call for the task dispatched with
\* task_no = t:
\*   pc        "idle" (not dispatched), "start" (before check_mem_usage),
\*             "loop" (in the while loop), "done" (left it by break),
\*             "crashed" (an exception left safely_call)
\*   it        the generator driving the task: "live" or "finished"
\*   nyield    how many times it has yielded
\*   sentbytes the local variable sentbytes
\*   exc       the exception the task function raised, "none" if it did not
\*   func/args what was dispatched
\*   remote    TRUE iff it runs on another host (zmq, ipp)
IdleWorker ==
    [pc |-> "idle", it |-> "live", nyield |-> 0, sentbytes |-> 0,
     exc |-> "none", func |-> "None", args |-> [from |-> None, i |-> 0],
     remote |-> FALSE]

StartWorker(func, args, remote) ==
    [IdleWorker EXCEPT !.pc = "start", !.func = func, !.args = args,
                       !.remote = remote]

\* the locals of safely_call are gone when it has returned
Returned(w) ==
    IF w.pc = "done"
    THEN [StartWorker(w.func, w.args, w.remote) EXCEPT !.pc = "done"]
    ELSE w

\* split_task(elements, func, args, duration, outs_per_task, monitor), resumed
\* after w.nyield yields: up to slice slowat it runs func on the next slice
\* and yields what func returns (or func raises); after slice slowat it
\* yields one subtask-request (func, slice) for each slice that is left.
split_task(w) ==
    IF w.nyield >= split.shards
    THEN {[ev |-> "StopIteration", val |-> NoneVal]}
    ELSE IF w.nyield < split.slowat
    THEN {[ev |-> "yield", val |-> Yielded("value", w.nyield + 1)]}
         \cup {[ev |-> "raise", val |-> Exc(e)] : e \in ExcKinds}
    ELSE {[ev |-> "yield", val |-> Yielded("callable_tuple", w.nyield + 1)]}

\* the generator gen that safely_call wraps around a plain function, here
\* the func of a split_task job run as a subtask: it yields what func
\* returns, once
gen(w) ==
    IF w.nyield >= 1
    THEN {[ev |-> "StopIteration", val |-> NoneVal]}
    ELSE {[ev |-> "yield", val |-> Yielded("value", 1)]}
         \cup {[ev |-> "raise", val |-> Exc(e)] : e \in ExcKinds}

\* next(it): what a call of next on the generator of the task can do. A plain
\* function is wrapped in a generator that yields once; a generator that has
\* raised or returned is finished and raises StopIteration ever after.
\* nsubs is the number of subtask-requests yielded so far in the job.
NextIt(w, nsubs) ==
    IF w.it = "finished" THEN {[ev |-> "StopIteration", val |-> NoneVal]}
    ELSE IF w.func = "split_task" THEN split_task(w)
    ELSE IF split # NoSplit THEN gen(w)
    ELSE {[ev |-> "StopIteration", val |-> NoneVal]}
         \cup {[ev |-> "raise", val |-> Exc(e)] : e \in ExcKinds}
         \cup (IF w.nyield < MaxOuts
               THEN {[ev |-> "yield", val |-> Yielded("value", w.nyield + 1)]}
               ELSE {})
         \cup (IF w.nyield < MaxOuts /\ nsubs < MaxSubs
               THEN {[ev |-> "yield",
                      val |-> Yielded("callable_tuple", w.nyield + 1)]}
               ELSE {})

\* Result.new calling func without looking at the version of the master
ResultNewNoCheck(t, w, nsubs) ==
    {CASE o.ev = "StopIteration" ->
            [res |-> [NewResult(NoneVal, Monitor(t), "", "TASK_ENDED")
                        EXCEPT !.len = w.sentbytes],
             w |-> [w EXCEPT !.it = "finished"], val |-> NoneVal]
       [] o.ev = "raise" ->
            [res |-> NewResult(o.val, Monitor(t), "tb", ""),
             w |-> [w EXCEPT !.it = "finished", !.exc = o.val.etype],
             val |-> NoneVal]
       [] OTHER ->
            [res |-> NewResult(o.val, Monitor(t), "", ""),
             w |-> [w EXCEPT !.nyield = @ + 1], val |-> o.val]
     : o \in NextIt(w, nsubs)}

\* Result.new(next, (it,), mon, sentbytes): the Result and the worker after
\* the call, one pair for each thing the call can do; val is what the task
\* yielded, if it did
ResultNew(t, w, nsubs) ==
    IF mismatch /\ w.remote
    THEN \* RuntimeError raised before func is called: the task does not advance
         {[res |-> NewResult(Exc("RuntimeError"), Monitor(t), "tb", ""),
           w |-> w, val |-> NoneVal]}
    ELSE {CASE o.ev = "StopIteration" ->
                 [res |-> [NewResult(NoneVal, Monitor(t), "", "TASK_ENDED")
                             EXCEPT !.len = w.sentbytes],
                  w |-> [w EXCEPT !.it = "finished"], val |-> NoneVal]
            [] o.ev = "raise" ->
                 [res |-> NewResult(o.val, Monitor(t), "tb", ""),
                  w |-> [w EXCEPT !.it = "finished", !.exc = o.val.etype],
                  val |-> NoneVal]
            [] OTHER ->
                 [res |-> NewResult(o.val, Monitor(t), "", ""),
                  w |-> [w EXCEPT !.nyield = @ + 1], val |-> o.val]
          : o \in NextIt(w, nsubs)}

IsSub(res) == res.func # "None"
NSubsIn(out) == Len(SelectSeq(out, IsSub))
IsFailure(res) == res.tb_str # ""
NFailures(out) == Len(SelectSeq(out, IsFailure))
IsEnd(res) == res.msg = "TASK_ENDED"
NEnds(out) == Len(SelectSeq(out, IsEnd))

\* One step of safely_call for task t, from x = [w, out, put]: the worker,
\* its unread Results and its history put. The set of what x can become.
\* nsubs counts the subtask-requests yielded by the other tasks.
SafelyCallStart(t, x) ==
    {CASE mem = "hard" -> [x EXCEPT !.w.pc = "crashed"]
       [] mem = "soft" ->
            [w |-> [x.w EXCEPT !.pc = "loop"],
             out |-> send(x.out, NewResult(NoneVal, Monitor(t), "", "warning")),
             put |-> Append(x.put, 0)]
       [] OTHER -> [x EXCEPT !.w.pc = "loop"]
     : mem \in MemLevels}

\* safely_call leaving its loop at a failure Result as at TASK_ENDED
SafelyCallLoopBreak(t, x, nsubs) ==
    IF mismatch /\ x.w.remote /\ NFailures(x.out) >= MaxRetry THEN {}
    ELSE {[w |-> [n.w EXCEPT !.sentbytes = @ + n.res.len,
                             !.pc = IF n.res.msg = "TASK_ENDED" \/ n.res.tb_str # ""
                                    THEN "done" ELSE "loop"],
           out |-> send(x.out, n.res),
           put |-> IF n.val.shape = "value" THEN Append(x.put, n.val.k)
                   ELSE x.put]
          : n \in ResultNew(t, x.w, nsubs + NSubsIn(x.out))}

\* safely_call sending each Result ahead of the ones not yet read
SafelyCallLoopReorder(t, x, nsubs) ==
    IF mismatch /\ x.w.remote /\ NFailures(x.out) >= MaxRetry THEN {}
    ELSE {[w |-> [n.w EXCEPT !.sentbytes = @ + n.res.len,
                             !.pc = IF n.res.msg = "TASK_ENDED"
                                    THEN "done" ELSE "loop"],
           out |-> <<n.res>> \o x.out,
           put |-> IF n.val.shape = "value" THEN Append(x.put, n.val.k)
                   ELSE x.put]
          : n \in ResultNew(t, x.w, nsubs + NSubsIn(x.out))}

SafelyCallLoop(t, x, nsubs) ==
    IF mismatch /\ x.w.remote /\ NFailures(x.out) >= MaxRetry THEN {}
    ELSE {[w |-> [n.w EXCEPT !.sentbytes = @ + n.res.len,
                             !.pc = IF n.res.msg = "TASK_ENDED"
                                    THEN "done" ELSE "loop"],
           out |-> send(x.out, n.res),
           put |-> IF n.val.shape = "value" THEN Append(x.put, n.val.k)
                   ELSE x.put]
          : n \in ResultNew(t, x.w, nsubs + NSubsIn(x.out))}

\* how many times the activation w of safely_call has called
\* check_mem_usage: the one call is made before the loop, on leaving "start",
\* and the loop makes none
mem_checks(w) == IF w.pc \in {"idle", "start"} THEN 0 ELSE 1

SafelyCallStep(t, x, nsubs) ==
    CASE x.w.pc = "start" -> SafelyCallStart(t, x)
      [] x.w.pc = "loop" -> SafelyCallLoop(t, x, nsubs)
      [] OTHER -> {}

RECURSIVE RunsFrom(_, _, _)
\* safely_call run to its end (the inline backend): every x in which the
\* call can end, by break or by an exception
RunsFrom(t, S, nsubs) ==
    LET more == UNION {SafelyCallStep(t, x, nsubs) : x \in S}
        T == S \cup more
    IN IF T = S THEN {x \in S : x.w.pc \in {"done", "crashed"}}
       ELSE RunsFrom(t, T, nsubs)

safely_call(t, func, args, nsubs) ==
    RunsFrom(t, {[w |-> StartWorker(func, args, FALSE), out |-> <<>>,
                  put |-> <<>>]}, nsubs)

\* ------------------------------------------------------ the dispatcher
\* The methods of Starmap are operators on a record d: the fields of smap,
\* the variables worker, ingress, put and nreq (what a method can change)
\* and exc, the exception that is propagating ("none" if there is none).
\* A method returns the set of the records it can end in.
num_tasks == IF sized THEN Len(task_args) ELSE None

RECURSIVE SumOver(_, _)
SumOver(f, S) ==
    IF S = {} THEN 0
    ELSE LET t == CHOOSE x \in S : TRUE IN f[t] + SumOver(f, S \ {t})

\* the subtask-requests yielded so far: the unread ones and the queued ones
TotalSubs(d) == d.nreq + SumOver([t \in TaskNos |-> NSubsIn(d.ingress[t])], TaskNos)

\* submit counting the task before it pickles its arguments
submit_count_first(d, args, func, host) ==
    LET d1 == [d EXCEPT !.socket = IF @ = "unbound" THEN "bound" ELSE @]
        t == d1.task_no
        dist == IF num_tasks = 1 \/ OQ_TASK_NO # None THEN "no" ELSE distribute
        sent_it(x) == [x EXCEPT !.task_no = @ + 1, !.tasks = Append(@, t)]
        ran(r) == [d1 EXCEPT !.worker[t] = Returned(r.w), !.ingress[t] = r.out,
                             !.put[t] = r.put]
    IN IF OQ_TASK_NO # None /\ d1.task_no # OQ_TASK_NO
       THEN {[d1 EXCEPT !.task_no = @ + 1]}
       ELSE IF dist # "no" /\ args.from = None /\ args.i \in unpicklable
       THEN {[d1 EXCEPT !.exc = "TypeError", !.task_no = @ + 1]}
       ELSE IF dist = "no"
       THEN {IF r.w.pc = "crashed" THEN [ran(r) EXCEPT !.exc = "MemoryError"]
             ELSE sent_it(ran(r))
             : r \in safely_call(t, func, args, TotalSubs(d1))}
       ELSE {sent_it([d1 EXCEPT
                 !.worker[t] = StartWorker(func, args, dist \in RemoteBackends)])}

\* submit giving a pool the function of the subtasks for any task
submit_plain_in_pool(d, args, func, host) ==
    LET d1 == [d EXCEPT !.socket = IF @ = "unbound" THEN "bound" ELSE @]
        t == d1.task_no
        dist == IF num_tasks = 1 \/ OQ_TASK_NO # None THEN "no" ELSE distribute
        sent_it(x) == [x EXCEPT !.task_no = @ + 1, !.tasks = Append(@, t)]
        ran(r) == [d1 EXCEPT !.worker[t] = Returned(r.w), !.ingress[t] = r.out,
                             !.put[t] = r.put]
    IN IF OQ_TASK_NO # None /\ d1.task_no # OQ_TASK_NO
       THEN {[d1 EXCEPT !.task_no = @ + 1]}
       ELSE IF dist # "no" /\ args.from = None /\ args.i \in unpicklable
       THEN \* pickle_sequence(args) raises
            {[d1 EXCEPT !.exc = "TypeError"]}
       ELSE IF dist = "no"
       THEN {IF r.w.pc = "crashed" THEN [ran(r) EXCEPT !.exc = "MemoryError"]
             ELSE sent_it(ran(r))
             : r \in safely_call(t, func, args, TotalSubs(d1))}
       ELSE {sent_it([d1 EXCEPT
                 !.worker[t] = StartWorker("func", args, dist \in RemoteBackends)])}

\* Starmap.submit(args, func, host)
submit(d, args, func, host) ==
    LET d1 == [d EXCEPT !.socket = IF @ = "unbound" THEN "bound" ELSE @]
        t == d1.task_no
        dist == IF num_tasks = 1 \/ OQ_TASK_NO # None THEN "no" ELSE distribute
        sent_it(x) == [x EXCEPT !.task_no = @ + 1, !.tasks = Append(@, t)]
        ran(r) == [d1 EXCEPT !.worker[t] = Returned(r.w), !.ingress[t] = r.out,
                             !.put[t] = r.put]
    IN IF OQ_TASK_NO # None /\ d1.task_no # OQ_TASK_NO
       THEN {[d1 EXCEPT !.task_no = @ + 1]}
       ELSE IF dist # "no" /\ args.from = None /\ args.i \in unpicklable
       THEN \* pickle_sequence(args) raises
            {[d1 EXCEPT !.exc = "TypeError"]}
       ELSE IF dist = "no"
       THEN \* no_submit: safely_call runs in the caller, to its end
            {IF r.w.pc = "crashed" THEN [ran(r) EXCEPT !.exc = "MemoryError"]
             ELSE sent_it(ran(r))
             : r \in safely_call(t, func, args, TotalSubs(d1))}
       ELSE \* a pool or a remote host runs safely_call later
            {sent_it([d1 EXCEPT
                 !.worker[t] = StartWorker(func, args, dist \in RemoteBackends)])}

RECURSIVE submit_each(_, _)
\* for args in items: self.submit(args), stopping at an exception
submit_each(d, items) ==
    IF items = <<>> \/ d.exc # "none" THEN {d}
    ELSE UNION {submit_each(d2, Tail(items))
                : d2 \in submit(d, Head(items).args, Head(items).func, "None")}

RECURSIVE submit_many_peek(_, _, _)
\* _submit_many leaving the task it submits in the queue
submit_many_peek(d, howmany, host) ==
    IF howmany = 0 \/ d.exc # "none" THEN {d}
    ELSE IF d.task_queue = <<>> THEN submit_many_peek(d, howmany - 1, host)
    ELSE LET item == Head(d.task_queue)
         IN UNION {submit_many_peek(IF d2.exc = "none"
                                    THEN [d2 EXCEPT !.todo = @ + 1] ELSE d2,
                                    howmany - 1, host)
                   : d2 \in submit(d, item.args, item.func, host)}

RECURSIVE submit_many_lifo(_, _, _)
\* _submit_many removing in LIFO order, as its comment has it
submit_many_lifo(d, howmany, host) ==
    IF howmany = 0 \/ d.exc # "none" THEN {d}
    ELSE IF d.task_queue = <<>> THEN submit_many_lifo(d, howmany - 1, host)
    ELSE LET item == d.task_queue[Len(d.task_queue)]
             d1 == [d EXCEPT !.task_queue = SubSeq(@, 1, Len(@) - 1)]
         IN UNION {submit_many_lifo(IF d2.exc = "none"
                                    THEN [d2 EXCEPT !.todo = @ + 1] ELSE d2,
                                    howmany - 1, host)
                   : d2 \in submit(d1, item.args, item.func, host)}

RECURSIVE submit_many(_, _, _)
\* Starmap._submit_many(howmany, host)
submit_many(d, howmany, host) ==
    IF howmany = 0 \/ d.exc # "none" THEN {d}
    ELSE IF d.task_queue = <<>> THEN submit_many(d, howmany - 1, host)
    ELSE LET item == Head(d.task_queue)
             d1 == [d EXCEPT !.task_queue = Tail(@)]
         IN UNION {submit_many(IF d2.exc = "none"
                               THEN [d2 EXCEPT !.todo = @ + 1] ELSE d2,
                               howmany - 1, host)
                   : d2 \in submit(d1, item.args, item.func, host)}

\* int(float(x) / y * 100) for integers x and y > 0: int() truncates
\* towards zero
Percent(x, y) ==
    IF x >= 0 THEN (x * 100) \div y ELSE 0 - (((0 - x) * 100) \div y)

\* Starmap.log_percent()
log_percent(d) ==
    LET submitted == Len(d.tasks)
        queued == Len(d.task_queue)
        total == submitted + queued
        done == submitted - d.todo
    IN IF total = 0 THEN [d EXCEPT !.exc = "ZeroDivisionError"]
       ELSE IF d.prev_percent = None THEN [d EXCEPT !.prev_percent = 0]
       ELSE IF Percent(done, total) > d.prev_percent
       THEN [d EXCEPT !.prev_percent = Percent(done, total)]
       ELSE d

\* _loop seeding one task more than num_cores
loop_head_one_more(d) ==
    LET q == d.task_queue
        first_args == SubSeq(q, 1, Min(num_cores + 1, Len(q)))
        rest == SubSeq(q, num_cores + 2, Len(q))
    IN {IF d2.exc # "none" \/ d2.socket = "unbound" THEN d2
        ELSE [d2 EXCEPT !.todo = Len(d2.tasks)]
        : d2 \in submit_each([d EXCEPT !.task_queue = rest], first_args)}

\* The head of Starmap._loop, up to the while loop: the first num_cores
\* queued tasks are submitted and todo is set.
loop_head(d) ==
    LET q == d.task_queue
        first_args == SubSeq(q, 1, Min(num_cores, Len(q)))
        rest == SubSeq(q, num_cores + 1, Len(q))
    IN {IF d2.exc # "none" \/ d2.socket = "unbound" THEN d2
        ELSE [d2 EXCEPT !.todo = Len(d2.tasks)]
        : d2 \in submit_each([d EXCEPT !.task_queue = rest], first_args)}

\* One iteration of the while loop of Starmap._loop on the Result res read
\* from the socket: the record after it and the Result it yields, if any.
NoResult == [msg |-> "none"]

\* _loop not counting down todo at an end-of-task
loop_body_keep_todo(d, res) ==
    LET d1 == log_percent(d)
        give(S, r) == {[d |-> x, res |-> IF x.exc = "none" THEN r ELSE NoResult]
                       : x \in S}
    IN IF d1.exc # "none" THEN give({d1}, NoResult)
       ELSE IF calc_id # res.mon.calc_id THEN give({d1}, NoResult)
       ELSE IF res.msg = "TASK_ENDED"
       THEN give(submit_many(d1, 1, "workerhost"), res)
       ELSE IF res.func # "None"
       THEN give(submit_many(
                     [d1 EXCEPT !.nreq = @ + 1,
                                !.task_queue = Append(@,
                          [func |-> res.func,
                           args |-> [from |-> res.mon.task_no, i |-> res.k]])],
                     1, "None"), NoResult)
       ELSE give({d1}, res)

\* _loop testing the calc_id after the end-of-task branch
loop_body_late_check(d, res) ==
    LET d1 == log_percent(d)
        give(S, r) == {[d |-> x, res |-> IF x.exc = "none" THEN r ELSE NoResult]
                       : x \in S}
    IN IF d1.exc # "none" THEN give({d1}, NoResult)
       ELSE IF res.msg = "TASK_ENDED"
       THEN give(submit_many([d1 EXCEPT !.todo = @ - 1], 1, "workerhost"),
                 IF calc_id # res.mon.calc_id THEN NoResult ELSE res)
       ELSE IF calc_id # res.mon.calc_id THEN give({d1}, NoResult)
       ELSE IF res.func # "None"
       THEN give(submit_many(
                     [d1 EXCEPT !.nreq = @ + 1,
                                !.task_queue = Append(@,
                          [func |-> res.func,
                           args |-> [from |-> res.mon.task_no, i |-> res.k]])],
                     1, "None"), NoResult)
       ELSE give({d1}, res)

\* _loop putting a requested subtask at the head of the queue
loop_body_push_front(d, res) ==
    LET d1 == log_percent(d)
        give(S, r) == {[d |-> x, res |-> IF x.exc = "none" THEN r ELSE NoResult]
                       : x \in S}
    IN IF d1.exc # "none" THEN give({d1}, NoResult)
       ELSE IF calc_id # res.mon.calc_id THEN give({d1}, NoResult)
       ELSE IF res.msg = "TASK_ENDED"
       THEN give(submit_many([d1 EXCEPT !.todo = @ - 1], 1, "workerhost"), res)
       ELSE IF res.func # "None"
       THEN give(submit_many(
                     [d1 EXCEPT !.nreq = @ + 1,
                                !.task_queue = <<[func |-> res.func,
                           args |-> [from |-> res.mon.task_no, i |-> res.k]]>>
                                               \o @],
                     1, "None"), NoResult)
       ELSE give({d1}, res)

loop_body(d, res) ==
    LET d1 == log_percent(d)
        give(S, r) == {[d |-> x, res |-> IF x.exc = "none" THEN r ELSE NoResult]
                       : x \in S}
    IN IF d1.exc # "none" THEN give({d1}, NoResult)
       ELSE IF calc_id # res.mon.calc_id THEN give({d1}, NoResult)
       ELSE IF res.msg = "TASK_ENDED"
       THEN give(submit_many([d1 EXCEPT !.todo = @ - 1], 1, "workerhost"), res)
       ELSE IF res.func # "None"
       THEN give(submit_many(
                     [d1 EXCEPT !.nreq = @ + 1,
                                !.task_queue = Append(@,
                          [func |-> res.func,
                           args |-> [from |-> res.mon.task_no, i |-> res.k]])],
                     1, "None"), NoResult)
       ELSE give({d1}, res)

\* _loop ending without closing the socket
loop_end_open(d) ==
    LET d1 == log_percent(d)
    IN IF d1.exc # "none" THEN d1
       ELSE [d1 EXCEPT !.tasks = <<>>]

\* The end of Starmap._loop, after the while loop
loop_end(d) ==
    LET d1 == log_percent(d)
    IN IF d1.exc # "none" THEN d1
       ELSE [d1 EXCEPT !.socket = "closed", !.tasks = <<>>]

\* ------------------------------------------------------- the consumer
\* task is the task whose Result the iteration was on when it raised
NoError == [etype |-> "none", src |-> "none", task |-> None,
            msg |-> [tb_str |-> "", name |-> "none", val |-> None]]

Raised(etype, src) == [NoError EXCEPT !.etype = etype, !.src = src]

\* _iter going on to the next Result after it has logged the memory warning
iter_body_skip(result, mem, first) ==
    LET get == ResultGet(result)
        warned == IF mem = "soft" /\ first THEN FALSE ELSE first
    IN IF mem = "hard"
       THEN [error |-> Raised("MemoryError", "check_mem_usage"),
             first_time |-> first, yield |-> <<>>]
       ELSE IF mem = "soft" /\ first
       THEN [error |-> NoError, first_time |-> warned, yield |-> <<>>]
       ELSE IF get.raise # "none"
       THEN [error |-> [NoError EXCEPT !.etype = get.raise,
                                        !.src = "Result.get", !.msg = get.msg],
             first_time |-> warned, yield |-> <<>>]
       ELSE IF result.msg = "TASK_ENDED"
       THEN [error |-> NoError, first_time |-> warned, yield |-> <<>>]
       ELSE IF result.func = "None"
       THEN [error |-> NoError, first_time |-> warned, yield |-> <<result.k>>]
       ELSE [error |-> NoError, first_time |-> warned, yield |-> <<>>]

\* _iter yielding what a failure Result holds instead of calling get()
iter_body_no_get(result, mem, first) ==
    LET warned == IF mem = "soft" /\ first THEN FALSE ELSE first
    IN IF mem = "hard"
       THEN [error |-> Raised("MemoryError", "check_mem_usage"),
             first_time |-> first, yield |-> <<>>]
       ELSE IF result.msg = "TASK_ENDED"
       THEN [error |-> NoError, first_time |-> warned, yield |-> <<>>]
       ELSE IF result.func = "None"
       THEN [error |-> NoError, first_time |-> warned, yield |-> <<result.k>>]
       ELSE [error |-> NoError, first_time |-> warned, yield |-> <<>>]

\* One turn of the for loop of IterResult._iter on the Result the main loop
\* yielded, with mem the outcome of check_mem_usage: the exception raised
\* (NoError if none), the new first_time and what is yielded to the consumer.
iter_body(result, mem, first) ==
    LET get == ResultGet(result)
        warned == IF mem = "soft" /\ first THEN FALSE ELSE first
    IN IF mem = "hard"
       THEN [error |-> Raised("MemoryError", "check_mem_usage"),
             first_time |-> first, yield |-> <<>>]
       ELSE IF get.raise # "none"
       THEN [error |-> [NoError EXCEPT !.etype = get.raise,
                                        !.src = "Result.get", !.msg = get.msg],
             first_time |-> warned, yield |-> <<>>]
       ELSE IF result.msg = "TASK_ENDED"
       THEN [error |-> NoError, first_time |-> warned, yield |-> <<>>]
       ELSE IF result.func = "None"
       THEN [error |-> NoError, first_time |-> warned, yield |-> <<result.k>>]
       ELSE [error |-> NoError, first_time |-> warned, yield |-> <<>>]

\* IterResult.reduce(agg, acc) on the results, in the order they arrive
Results == {0, 1}    \* the values of the tasks (and of acc)
AccumDict == 0       \* AccumDict(), the accumulator when acc is None

Aggs == [Results \X Results -> Results]

RECURSIVE fold(_, _, _)
\* for result in self: acc = agg(acc, result)
fold(agg, acc, results) ==
    IF results = <<>> THEN acc
    ELSE fold(agg, agg[<<acc, Head(results)>>], Tail(results))

\* reduce keeping only the last result
reduce_last(agg, acc, results) ==
    LET a == IF acc = None THEN AccumDict ELSE acc
    IN IF results = <<>> THEN a ELSE agg[<<a, results[Len(results)]>>]

reduce(agg, acc, results) ==
    fold(agg, IF acc = None THEN AccumDict ELSE acc, results)

\* ----------------------------------------------- the class Starmap
\* The class attributes before any Starmap is made: no pool, no executor
NewClass ==
    [distribute |-> "unset", pool |-> "none", executor |-> "none",
     pids |-> FALSE, shared |-> <<>>, linked |-> {}, created |-> 0,
     last |-> "none", exc |-> "none",
     SIGTERM |-> "SIG_DFL", SIGINT |-> "SIG_DFL",
     spawned |-> [SIGTERM |-> "none", SIGINT |-> "none"]]

\* what signal.signal can return: the two constants and a Python function
Handlers == {"SIG_DFL", "SIG_IGN", "handler"}

\* mp_context.Pool(cls.num_cores, init_workers, ...) under the handlers the
\* parent has at the moment: spawned records them
Pool(c) ==
    [c EXCEPT !.pool = "processpool", !.pids = TRUE, !.shared = <<>>,
              !.spawned = [SIGTERM |-> c.SIGTERM, SIGINT |-> c.SIGINT]]

\* Starmap.init leaving the handlers as it set them for the spawn
init_no_restore(c, dist) ==
    LET c1 == [c EXCEPT !.distribute = dist, !.last = "init", !.exc = "none"]
    IN IF dist = "processpool" /\ c1.pool = "none"
       THEN Pool([c1 EXCEPT !.SIGTERM = "SIG_DFL", !.SIGINT = "SIG_IGN"])
       ELSE c1

\* Starmap.init(distribute), called by Starmap.__init__
init(c, dist) ==
    LET c1 == [c EXCEPT !.distribute = dist, !.last = "init", !.exc = "none"]
    IN IF dist = "processpool" /\ c1.pool = "none"
       THEN LET term_handler == c1.SIGTERM
                int_handler == c1.SIGINT
                c2 == Pool([c1 EXCEPT !.SIGTERM = "SIG_DFL",
                                      !.SIGINT = "SIG_IGN"])
            IN [c2 EXCEPT !.SIGTERM = term_handler, !.SIGINT = int_handler]
       ELSE IF dist = "threadpool" /\ c1.pool = "none"
       THEN [c1 EXCEPT !.pool = "threadpool"]
       ELSE IF dist = "ipp" /\ c1.executor = "none"
       THEN [c1 EXCEPT !.executor = "running"]
       ELSE c1

\* Starmap.create_shared(shape, dtype, value): a new buffer with a new name
create_shared(c) ==
    [c EXCEPT !.created = @ + 1, !.linked = @ \cup {c.created + 1},
              !.shared = Append(@, c.created + 1),
              !.last = "create_shared", !.exc = "none"]

RECURSIVE unlink(_, _)
\* for shared in cls.shared: shmem.SharedMemory(shared.name).unlink();
\* attaching to a name that does not exist raises FileNotFoundError
unlink(names, linked) ==
    IF names = <<>> THEN [linked |-> linked, exc |-> "none"]
    ELSE IF Head(names) \notin linked
    THEN [linked |-> linked, exc |-> "FileNotFoundError"]
    ELSE unlink(Tail(names), linked \ {Head(names)})

\* Starmap.shutdown()
shutdown(c) ==
    LET u == unlink(c.shared, c.linked)
        c1 == [c EXCEPT !.linked = u.linked, !.exc = u.exc, !.last = "shutdown"]
    IN IF u.exc # "none" THEN c1
       ELSE IF c1.pool # "none" THEN [c1 EXCEPT !.pool = "none", !.pids = FALSE]
       ELSE IF c1.executor # "none" THEN [c1 EXCEPT !.executor = "shutdown"]
       ELSE c1

NoReduce == [agg |-> [x \in Results \X Results |-> AccumDict], acc |-> None,
             values |-> <<>>, arrived |-> <<>>, returned |-> None]

\* ------------------------------------------- the injected monitor
\* parameter names, as sequences of characters
ArgNames ==
    {<<"m", "o", "n", "i", "t", "o", "r">>, <<"m", "o", "n">>,
     <<"s", "i", "t", "e", "m", "o", "n">>, <<"a", "m", "o", "n", "g">>,
     <<"m", "o">>, <<"x">>}

\* argnames[-1].startswith('mon') or argnames[-1].endswith('mon')
inject(last) ==
    IsPrefix(<<"m", "o", "n">>, last) \/ IsSuffix(<<"m", "o", "n">>, last)

NoCall == [task_func |-> <<>>, func |-> <<>>, how |-> "none",
           stage |-> "none", inject |-> FALSE, appended |-> FALSE]

\* ------------------------------------------------------ Starmap.apply
\* The splitters of openquake.baselib.general, for items of weight 1 and of
\* one kind. A way to split the n items of seq into k blocks is a function
\* f from the positions onto 1 .. k: block j holds the items that f sends
\* to j, in their order.
Blocks(seq, k, f) ==
    [j \in 1 .. k |-> LET InBlock(x) == f[x] = j IN SelectSeq(seq, InBlock)]

Splits(seq, k) ==
    {Blocks(seq, k, f) :
        f \in {g \in [1 .. Len(seq) -> 1 .. k] :
                  \A j \in 1 .. k : \E x \in 1 .. Len(seq) : g[x] = j}}

\* split_in_blocks(seq, hint, weight, key): at most hint blocks, none empty,
\* that cover seq exactly once
split_in_blocks(seq, hint) ==
    UNION {Splits(seq, k) : k \in 0 .. Min(hint, Len(seq))}

\* block_splitter(seq, maxweight, weight, key): blocks of weight at most
\* maxweight that cover seq exactly once
block_splitter(seq, maxweight) ==
    {b \in UNION {Splits(seq, k) : k \in 0 .. Len(seq)} :
        \A j \in 1 .. Len(b) : Len(b[j]) <= maxweight}

\* Starmap.CT
CT == num_cores * 2

\* Starmap.apply dropping the other arguments
apply_block_only(allargs, concurrent_tasks, maxweight) ==
    LET ct == IF concurrent_tasks = None THEN CT ELSE concurrent_tasks
        blocks == IF maxweight # None /\ maxweight # 0
                  THEN block_splitter(allargs.arg0, maxweight)
                  ELSE split_in_blocks(allargs.arg0, IF ct = 0 THEN 1 ELSE ct)
    IN {[blocks |-> b,
         taskargs |-> [i \in 1 .. Len(b) |-> [arg0 |-> b[i], args |-> <<>>]]]
        : b \in blocks}

\* Starmap.apply(task, allargs, concurrent_tasks, maxweight): the blocks of
\* the splitter and the task_args of the Starmap, [blk] + args for each
\* block
apply(allargs, concurrent_tasks, maxweight) ==
    LET ct == IF concurrent_tasks = None THEN CT ELSE concurrent_tasks
        blocks == IF maxweight # None /\ maxweight # 0
                  THEN block_splitter(allargs.arg0, maxweight)
                  ELSE split_in_blocks(allargs.arg0, IF ct = 0 THEN 1 ELSE ct)
    IN {[blocks |-> b,
         taskargs |-> [i \in 1 .. Len(b) |->
                          [arg0 |-> b[i], args |-> allargs.args]]]
        : b \in blocks}

NoApply == [allargs |-> [arg0 |-> <<>>, args |-> <<>>],
            concurrent_tasks |-> None, maxweight |-> None,
            blocks |-> <<>>, taskargs |-> <<>>, stage |-> "none"]

\* ------------------------------------------------------ the supervisor
\* openquake.supervising.supervisor. proc is the job process ("running" or
\* "exited"), status the status of the job in the database, queue the
\* unread messages of the queue supervisor-<job_id> (their levels), state
\* where the supervisor is: "supervising" (in message_consumer.run),
\* "stopped" (a callback raised StopIteration), "raised" (another exception
\* left the callback). signalled, cleanups and error_msgs record the calls
\* of signal_job_outcome, cleanup_after_job and ErrorMsg.objects.create.
NoSupervisor ==
    [proc |-> "none", status |-> "none", queue |-> <<>>, state |-> "none",
     signalled |-> <<>>, cleanups |-> 0, error_msgs |-> <<>>, exc |-> "none"]

\* terminate_job(pid): os.kill(pid, SIGKILL) kills a running process; for
\* a pid that is no longer running it raises OSError (no such process),
\* or signals whatever process has got the pid since
terminate_job(u) ==
    IF u.proc = "running" THEN {[u EXCEPT !.proc = "exited"]}
    ELSE {[u EXCEPT !.exc = "OSError"], u}

\* update_job_status_and_error_msg(job_id, status, error_msg)
update_job_status_and_error_msg(u, status, error_msg) ==
    [u EXCEPT !.status = status,
              !.error_msgs = IF error_msg # "None" THEN Append(@, error_msg)
                             ELSE @]

\* cleanup_after_job(job_id)
cleanup_after_job(u) == [u EXCEPT !.cleanups = @ + 1]

\* signalling.signal_job_outcome(job_id, outcome)
signal_job_outcome(u, outcome) == [u EXCEPT !.signalled = Append(@, outcome)]

\* SupervisorLogMessageConsumer.message_callback(msg)
message_callback(u, msg) ==
    {IF u1.exc # "none" THEN [u1 EXCEPT !.state = "raised"]
     ELSE [cleanup_after_job(
              update_job_status_and_error_msg(
                 signal_job_outcome(u1, "failed"), "failed", msg))
             EXCEPT !.state = "stopped"]
     : u1 \in terminate_job(u)}

\* SupervisorLogMessageConsumer.timeout_callback()
timeout_callback(u) ==
    IF u.proc = "running" THEN u
    ELSE LET u1 == IF u.status = "succeeded"
                   THEN signal_job_outcome(u, "succeeded")
                   ELSE IF u.status = "running"
                   THEN update_job_status_and_error_msg(
                            signal_job_outcome(u, "failed"), "failed", "None")
                   ELSE signal_job_outcome(u, "failed")
         IN [cleanup_after_job(u1) EXCEPT !.state = "stopped"]

\* ------------------------------------------- the kinds of the Results
\* What a task function can produce, by what Result.__init__ looks at: the
\* type of the value and, for a tuple, its items, each one callable
\* ("function") or not ("object")
Items == {"function", "object"}
Tuples == UNION {[1 .. n -> Items] : n \in 0 .. MaxTuple}
Produced ==
    {[type |-> ty, items |-> <<>>] : ty \in {"dict", "NoneType", "object",
                                             "function"}}
    \cup {[type |-> "tuple", items |-> tu] : tu \in Tuples}

callable(x) == x = "function"

\* Result.__init__(val, mon) for a produced value (tb_str = '', msg = ''):
\* the kind of the Result, its func and the length of its pik (the number
\* of envelopes of a subtask-request); val[0] of the empty tuple raises
Result_init(val) ==
    IF val.type = "dict"
    THEN [exc |-> "none", kind |-> "value", func |-> "None", pik |-> 1]
    ELSE IF val.type = "tuple" /\ val.items = <<>>
    THEN [exc |-> "IndexError", kind |-> "none", func |-> "None", pik |-> 0]
    ELSE IF val.type = "tuple" /\ callable(val.items[1])
    THEN [exc |-> "none", kind |-> "subtask-request", func |-> "func",
          pik |-> Len(val.items) - 1]
    ELSE [exc |-> "none", kind |-> "value", func |-> "None", pik |-> 1]

NoTask == [vals |-> <<>>, sent |-> <<>>, exc |-> "none"]

\* one turn of the loop of safely_call on a task that produces val:
\* Result.new makes the Result in the else clause of its try, so that an
\* exception of Result.__init__ leaves Result.new and safely_call, and
\* nothing is sent
send_produced(k, val) ==
    LET res == Result_init(val)
    IN IF res.exc # "none"
       THEN [k EXCEPT !.vals = Append(@, val), !.exc = res.exc]
       ELSE [k EXCEPT !.vals = Append(@, val), !.sent = Append(@, res)]

\* ------------------------------------------- the slices of split_task
\* The elements are numbered 1 .. n in their order (the element of index
\* idx is idx + 1); a slice is the set of its elements.
\* outs_per_task after "if outs_per_task > n: outs_per_task = n"
outs(n, outs_per_task) == IF outs_per_task > n THEN n ELSE outs_per_task

\* split_elems = [elements[idxs % outs_per_task == i] for i in range(...)],
\* as a sequence: split_elems[i] of the code is split_elems(..)[i + 1]
split_elems(n, outs_per_task) ==
    [k \in 1 .. outs(n, outs_per_task) |->
        {e \in 1 .. n : (e - 1) % outs(n, outs_per_task) = k - 1}]

NoSplitTask == [n |-> 0, outs_per_task |-> 0, i |-> 0, ran |-> <<>>,
                emitted |-> <<>>, it |-> "none"]

\* split_task yielding again the slice it has just run, with the others
split_task_from_i(g, slow) ==
    LET se == split_elems(g.n, g.outs_per_task)
    IN IF g.i >= Len(se) THEN [g EXCEPT !.it = "finished"]
       ELSE IF slow
       THEN [g EXCEPT !.ran = Append(@, se[g.i + 1]),
                      !.emitted = SubSeq(se, g.i + 1, Len(se)),
                      !.it = "finished"]
       ELSE [g EXCEPT !.ran = Append(@, se[g.i + 1]), !.i = @ + 1]

\* One turn of the for loop of split_task: func runs on split_elems[i] and
\* its result is yielded; slow is dt > duration, and then each of
\* split_elems[i + 1:] is yielded as a subtask-request and the loop is left
split_task_turn(g, slow) ==
    LET se == split_elems(g.n, g.outs_per_task)
    IN IF g.i >= Len(se) THEN [g EXCEPT !.it = "finished"]
       ELSE IF slow
       THEN [g EXCEPT !.ran = Append(@, se[g.i + 1]),
                      !.emitted = SubSeq(se, g.i + 2, Len(se)),
                      !.it = "finished"]
       ELSE [g EXCEPT !.ran = Append(@, se[g.i + 1]), !.i = @ + 1]

\* ------------------------------------------------- pickle_sequence
\* An object in memory is a plain value (1 or 2; two objects may hold the
\* same value) or a Pickled instance holding a bytestring. pickle.dumps
\* and pickle.loads are a pair of inverse encodings of the values.
PlainValues == {1, 2}
dumps(v) == 10 * v + 7
loads(b) == (b - 7) \div 10

\* Pickled(obj) and Pickled.unpickle()
Pickled(obj) == [isPickled |-> TRUE, pik |-> dumps(obj.v)]
unpickle(e) == [isPickled |-> FALSE, v |-> loads(e.pik)]

Objects ==
    [isPickled : {FALSE}, v : PlainValues]
    \cup {Pickled([v |-> v]) : v \in PlainValues}

NoPickling == [held |-> TRUE, objects |-> <<>>, out |-> <<>>, ndumps |-> 0,
               returned |-> FALSE]

RECURSIVE pickle_loop(_, _, _)
\* the for loop of pickle_sequence from the i-th object on; an object is
\* given with its id, and cache maps the ids seen to the envelope put in
\* out for them. An element of out is the id of the envelope (of the object
\* itself if it was a Pickled, a new one otherwise) with the envelope.
pickle_loop(k, i, cache) ==
    IF i > Len(k.objects) THEN [k EXCEPT !.returned = TRUE]
    ELSE LET obj_id == k.objects[i].id
             obj == k.objects[i].obj
         IN IF obj_id \in DOMAIN cache
            THEN pickle_loop([k EXCEPT !.out = Append(@, cache[obj_id])],
                             i + 1, cache)
            ELSE LET e == IF obj.isPickled
                          THEN [id |-> obj_id, obj |-> obj]
                          ELSE [id |-> MaxIds + k.ndumps + 1,
                                obj |-> Pickled(obj)]
                 IN pickle_loop(
                        [k EXCEPT !.out = Append(@, e),
                                  !.ndumps = IF obj.isPickled THEN @ ELSE @ + 1],
                        i + 1, (obj_id :> e) @@ cache)

pickle_sequence(k) == pickle_loop(k, 1, <<>>)

\* ------------------------------------------------------- multispawn
\* allargs is <<1, .., n>> and a process is named by its argument; pc is
\* the loop test multispawn is at: "while allargs", "while len(procs)",
\* "while procs", or "returned"
NoSpawn == [num_cores |-> 1, allargs |-> <<>>, procs |-> {}, started |-> <<>>,
            alive |-> {}, pc |-> "none"]

\* multispawn waiting only when more than num_cores processes are in procs
multispawn_one_more(m, ready) ==
    CASE m.pc = "while allargs" ->
           IF m.allargs = <<>> THEN [m EXCEPT !.pc = "while procs"]
           ELSE LET args == Head(m.allargs)
                IN [m EXCEPT !.allargs = Tail(@),
                             !.started = Append(@, args),
                             !.alive = @ \cup {args},
                             !.procs = @ \cup {args},
                             !.pc = "while len(procs)"]
      [] m.pc = "while len(procs)" ->
           IF Cardinality(m.procs) > m.num_cores
           THEN IF ready = {} THEN m ELSE [m EXCEPT !.procs = @ \ ready]
           ELSE [m EXCEPT !.pc = "while allargs"]
      [] m.pc = "while procs" ->
           IF m.procs # {}
           THEN IF ready = {} THEN m ELSE [m EXCEPT !.procs = @ \ ready]
           ELSE [m EXCEPT !.pc = "returned"]
      [] OTHER -> m

\* multispawn(func, allargs, num_cores) from one loop test to the next;
\* ready is what wait(procs) returns when the step calls it: processes of
\* procs that have finished, and with none of them wait does not return
\* (the step is not made). allargs is taken from its first item on (the
\* code reverses it and pops from the end).
multispawn(m, ready) ==
    CASE m.pc = "while allargs" ->
           IF m.allargs = <<>> THEN [m EXCEPT !.pc = "while procs"]
           ELSE LET args == Head(m.allargs)
                IN [m EXCEPT !.allargs = Tail(@),
                             !.started = Append(@, args),
                             !.alive = @ \cup {args},
                             !.procs = @ \cup {args},
                             !.pc = "while len(procs)"]
      [] m.pc = "while len(procs)" ->
           IF Cardinality(m.procs) >= m.num_cores
           THEN IF ready = {} THEN m ELSE [m EXCEPT !.procs = @ \ ready]
           ELSE [m EXCEPT !.pc = "while allargs"]
      [] m.pc = "while procs" ->
           IF m.procs # {}
           THEN IF ready = {} THEN m ELSE [m EXCEPT !.procs = @ \ ready]
           ELSE [m EXCEPT !.pc = "returned"]
      [] OTHER -> m

\* ---------------------------------------------------- the zmq backend
\* hosts, the hosts of config.zworkers.host_cores, are numbered from 1;
\* ihost is the position of itertools.cycle(hosts)
NoSender == [hosts |-> 0, host |-> None, ihost |-> 1, sent |-> <<>>]

\* Starmap.submit: if host is not None: self.monitor.host = host
pin(z, host) == IF host # None THEN [z EXCEPT !.host = host] ELSE z

\* zmq_submit(self, func, args, monitor): the sender after the call, with
\* the host the task was sent to as the last of sent
zmq_submit(z, host) ==
    IF z.host = None
    THEN [z EXCEPT !.ihost = (@ % z.hosts) + 1,
                   !.sent = Append(@, [host |-> host, to |-> z.ihost])]
    ELSE [z EXCEPT !.sent = Append(@, [host |-> host, to |-> z.host])]

\* ------------------------------------------------------------- actions
D == [task_queue |-> smap.task_queue, tasks |-> smap.tasks,
      task_no |-> smap.task_no, todo |-> smap.todo, socket |-> smap.socket,
      prev_percent |-> smap.prev_percent,
      worker |-> worker, ingress |-> ingress, put |-> put, nreq |-> nreq,
      exc |-> "none"]

\* the variables after a method of Starmap ended in the record d
Becomes(d) ==
    /\ smap' = [task_queue |-> d.task_queue, tasks |-> d.tasks,
                task_no |-> d.task_no, todo |-> d.todo, socket |-> d.socket,
                prev_percent |-> d.prev_percent]
    /\ worker' = d.worker
    /\ ingress' = d.ingress
    /\ put' = d.put
    /\ nreq' = d.nreq

\* When an exception leaves the iteration the job is over and nothing reads
\* the ingress any more: the workers and what they have sent are no longer
\* followed.
Abandoned(d) ==
    [d EXCEPT !.worker = [t \in TaskNos |-> IdleWorker],
              !.ingress = [t \in TaskNos |-> <<>>]]

NewStarmap ==
    /\ pc = "new"
    /\ smap = [task_queue |-> <<>>, tasks |-> <<>>, task_no |-> 0, todo |-> 0,
               socket |-> "unbound", prev_percent |-> None]
    /\ worker = [t \in TaskNos |-> IdleWorker]
    /\ ingress = [t \in TaskNos |-> <<>>]
    /\ first_time = TRUE
    /\ yielded = [t \in TaskNos |-> <<>>]
    /\ error = NoError
    /\ put = [t \in TaskNos |-> <<>>]
    /\ nreq = 0

Init ==
    /\ distribute \in Backends
    /\ num_cores \in 1 .. MaxCores
    /\ task_args \in {[i \in 1 .. n |-> i] : n \in 0 .. MaxTasks}
    /\ sized \in BOOLEAN
    /\ OQ_TASK_NO \in {None} \cup (0 .. MaxTasks - 1)
    /\ mismatch \in (IF distribute \in RemoteBackends THEN BOOLEAN ELSE {FALSE})
    /\ split = NoSplit
    /\ red = NoReduce
    /\ unpicklable = {}
    /\ cls = NewClass
    /\ ms = NoSpawn
    /\ pk = NoPickling
    /\ st = NoSplitTask
    /\ made = NoTask
    /\ zmq = NoSender
    /\ sup = NoSupervisor
    /\ app = NoApply
    /\ call = NoCall
    /\ NewStarmap

\* Starmap.submit_all(): an unsized task_args is submitted at once, a sized
\* one becomes the task queue
AllArgs == [i \in 1 .. Len(task_args) |->
               [func |-> task_func, args |-> [from |-> None, i |-> task_args[i]]]]

SubmitAll ==
    /\ pc = "new"
    /\ \E d \in (IF num_tasks = None THEN submit_each(D, AllArgs)
                 ELSE {[D EXCEPT !.task_queue = AllArgs]}) :
          /\ Becomes(IF d.exc = "none" THEN d ELSE Abandoned(d))
          /\ pc' = IF d.exc = "none" THEN "iter" ELSE "raised"
          /\ error' = IF d.exc = "none" THEN NoError ELSE Raised(d.exc, "submit")
    /\ UNCHANGED <<config, first_time, yielded>>

\* the first next() on the IterResult: Starmap._loop runs up to its while
LoopStart ==
    /\ pc = "iter"
    /\ \E d \in loop_head(D) :
          /\ Becomes(IF d.exc = "none" THEN d ELSE Abandoned(d))
          /\ pc' = IF d.exc # "none" THEN "raised"
                   ELSE IF d.socket = "unbound" THEN "done" ELSE "loop"
          /\ error' = IF d.exc = "none" THEN NoError ELSE Raised(d.exc, "submit")
    /\ UNCHANGED <<config, first_time, yielded>>

\* The rest of an iteration of `while self.todo`, after the Result res was
\* read from the socket, and the turn of IterResult._iter on the Result
\* the iteration yields. The histories put and yielded of a task are kept
\* until its end-of-task has been read (to the end in a split_task job).
Iterate(d, res) ==
    \E o \in loop_body(d, res) :
       IF o.d.exc # "none"
       THEN /\ Becomes(Abandoned(o.d))
            /\ pc' = "raised"
            /\ error' = Raised(o.d.exc, "submit")
            /\ UNCHANGED <<first_time, yielded>>
       ELSE IF o.res = NoResult
       THEN /\ Becomes(o.d)
            /\ UNCHANGED <<pc, error, first_time, yielded>>
       ELSE \E mem \in MemLevels :
            LET it == iter_body(o.res, mem, first_time)
                t == o.res.mon.task_no
                ended == IsEnd(o.res) /\ it.error = NoError /\ split = NoSplit
            IN /\ Becomes(IF ended THEN [o.d EXCEPT !.put[t] = <<>>]
                          ELSE IF it.error # NoError THEN Abandoned(o.d)
                          ELSE o.d)
               /\ error' = IF it.error = NoError THEN NoError
                           ELSE [it.error EXCEPT !.task = t]
               /\ pc' = IF it.error = NoError THEN "loop" ELSE "raised"
               /\ first_time' = it.first_time
               /\ yielded' = [yielded EXCEPT ![t] =
                                 IF ended THEN <<>> ELSE @ \o it.yield]

\* one iteration of the main loop on the oldest unread Result of a task
LoopStep(t) ==
    /\ pc = "loop"
    /\ smap.todo # 0
    /\ ingress[t] # <<>>
    /\ Iterate([D EXCEPT !.ingress[t] = recv(@).rest], recv(ingress[t]).res)
    /\ UNCHANGED config

\* one iteration of the main loop on a Result that a task of another job
\* has pushed on the ingress of this one
ForeignResults ==
    LET mon == [calc_id |-> other_calc_id, task_no |-> 0]
    IN {NewResult(Yielded("value", 1), mon, "", ""),
        NewResult(Yielded("callable_tuple", 1), mon, "", ""),
        NewResult(NoneVal, mon, "", "TASK_ENDED"),
        NewResult(Exc("ValueError"), mon, "tb", "")}

LoopStepForeign ==
    /\ pc = "loop"
    /\ smap.todo # 0
    /\ \E res \in ForeignResults : Iterate(D, res)
    /\ UNCHANGED config

\* the while loop ends: the socket is closed
LoopExit ==
    /\ pc = "loop"
    /\ smap.todo = 0
    /\ LET d == loop_end(D)
       IN /\ Becomes(IF d.exc = "none" THEN d ELSE Abandoned(d))
          /\ pc' = IF d.exc = "none" THEN "done" ELSE "raised"
          /\ error' = IF d.exc = "none" THEN NoError
                      ELSE Raised(d.exc, "log_percent")
    /\ UNCHANGED <<config, first_time, yielded>>

\* a worker of a pool or of a remote host makes one step of safely_call
WorkerStep(t) ==
    /\ pc \in {"iter", "loop"}
    /\ Len(ingress[t]) < MaxUnread
    /\ \E n \in SafelyCallStep(t, [w |-> worker[t], out |-> ingress[t],
                                   put |-> put[t]],
                               TotalSubs(D) - NSubsIn(ingress[t])) :
          /\ worker' = [worker EXCEPT ![t] = Returned(n.w)]
          /\ ingress' = [ingress EXCEPT ![t] = n.out]
          /\ put' = [put EXCEPT ![t] = n.put]
    /\ UNCHANGED <<config, pc, smap, first_time, yielded, error, nreq>>

Next ==
    \/ SubmitAll
    \/ LoopStart
    \/ \E t \in TaskNos : LoopStep(t)
    \/ LoopStepForeign
    \/ LoopExit
    \/ \E t \in TaskNos : WorkerStep(t)

Spec == Init /\ [][Next]_vars

\* ------------------------------------------------ the workers alone
\* The worker side on its own: tasks are dispatched to a backend and each
\* runs safely_call step by step; nothing is read from the ingress, so that
\* ingress[t] is all that task t has sent.
InitWorker ==
    /\ Init
    /\ num_cores = MaxCores
    /\ Len(task_args) = MaxTasks
    /\ sized
    /\ OQ_TASK_NO = None

\* a backend starts safely_call for the task dispatched as t
Dispatch(t) ==
    /\ t < Len(task_args)
    /\ worker[t].pc = "idle"
    /\ worker' = [worker EXCEPT ![t] =
                      StartWorker(task_func, [from |-> None, i |-> task_args[t + 1]],
                                  distribute \in RemoteBackends)]
    /\ UNCHANGED <<config, pc, smap, ingress, first_time, yielded, error, put,
                   nreq>>

\* the worker of task t makes one step of safely_call
SafelyCall(t) ==
    /\ \E n \in SafelyCallStep(t, [w |-> worker[t], out |-> ingress[t],
                                   put |-> put[t]],
                               TotalSubs(D) - NSubsIn(ingress[t])) :
          /\ worker' = [worker EXCEPT ![t] = n.w]
          /\ ingress' = [ingress EXCEPT ![t] = n.out]
          /\ put' = [put EXCEPT ![t] = n.put]
    /\ UNCHANGED <<config, pc, smap, first_time, yielded, error, nreq>>

NextWorker ==
    \/ \E t \in TaskNos : Dispatch(t)
    \/ \E t \in TaskNos : SafelyCall(t)

SpecWorker == InitWorker /\ [][NextWorker]_vars

\* ------------------------------------------------- jobs of split_task
\* The jobs whose task function is split_task (Starmap.apply_split, or
\* Starmap.submit_split): each task slices its elements into split.shards
\* slices; the tasks and the subtasks they request all get a task_no.
InitSplit ==
    /\ distribute \in Backends
    /\ num_cores \in 1 .. MaxCores
    /\ task_args \in {[i \in 1 .. n |-> i] : n \in 1 .. MaxTasks}
    /\ sized \in BOOLEAN
    /\ OQ_TASK_NO = None
    /\ mismatch \in (IF distribute \in RemoteBackends THEN BOOLEAN ELSE {FALSE})
    /\ split \in {[shards |-> n, slowat |-> s] : n \in 1 .. MaxShards, s \in 1 .. MaxShards}
    /\ split.slowat <= split.shards
    /\ Len(task_args) * split.shards <= Cardinality(TaskNos)
    /\ red = NoReduce
    /\ unpicklable = {}
    /\ cls = NewClass
    /\ ms = NoSpawn
    /\ pk = NoPickling
    /\ st = NoSplitTask
    /\ made = NoTask
    /\ zmq = NoSender
    /\ sup = NoSupervisor
    /\ app = NoApply
    /\ call = NoCall
    /\ NewStarmap

SpecSplit == InitSplit /\ [][Next]_vars

\* ------------------------------------------------ IterResult.reduce
\* reduce on its own: the values of the tasks, values, arrive in any order
\* (arrived is a permutation of values) and reduce is applied to them.
job == <<distribute, num_cores, task_args, sized, OQ_TASK_NO, mismatch,
         split, pc, smap, worker, ingress, first_time, yielded, error, put,
         nreq, unpicklable>>

\* a job that is not looked at: no task, nothing submitted
NoJob ==
    /\ distribute = "no"
    /\ num_cores = 1
    /\ task_args = <<>>
    /\ sized = TRUE
    /\ OQ_TASK_NO = None
    /\ mismatch = FALSE
    /\ split = NoSplit
    /\ unpicklable = {}
    /\ NewStarmap

Seqs(S, n) == UNION {[1 .. k -> S] : k \in 0 .. n}

Perms(n) == {p \in [1 .. n -> 1 .. n] : \A i, j \in 1 .. n : p[i] = p[j] => i = j}

InitReduce ==
    /\ NoJob
    /\ cls = NewClass
    /\ ms = NoSpawn
    /\ pk = NoPickling
    /\ st = NoSplitTask
    /\ made = NoTask
    /\ zmq = NoSender
    /\ sup = NoSupervisor
    /\ app = NoApply
    /\ call = NoCall
    /\ red \in {[NoReduce EXCEPT !.agg = f, !.acc = a, !.values = v]
                : f \in Aggs, a \in Results \cup {None},
                  v \in Seqs(Results, MaxResults)}

Reduce ==
    /\ red.returned = None
    /\ \E p \in Perms(Len(red.values)) :
          LET order == [i \in 1 .. Len(red.values) |-> red.values[p[i]]]
          IN red' = [red EXCEPT !.arrived = order,
                                !.returned = reduce(red.agg, red.acc, order)]
    /\ UNCHANGED <<job, cls, call, app, sup, zmq, made, st, pk, ms>>

SpecReduce == InitReduce /\ [][Reduce]_vars

\* --------------------------------------- the class Starmap on its own
\* Starmaps are made (each calls Starmap.init), SharedArrays are created
\* and Starmap.shutdown is called, in any order.
InitClass ==
    /\ NoJob
    /\ red = NoReduce
    /\ cls \in {[NewClass EXCEPT !.SIGTERM = t, !.SIGINT = i]
                : t \in Handlers, i \in Handlers}
    /\ pk = NoPickling
    /\ ms = NoSpawn
    /\ st = NoSplitTask
    /\ made = NoTask
    /\ zmq = NoSender
    /\ sup = NoSupervisor
    /\ app = NoApply
    /\ call = NoCall

ClassInit ==
    /\ \E dist \in Backends : cls' = init(cls, dist)
    /\ UNCHANGED <<job, red, call, app, sup, zmq, made, st, pk, ms>>

\* create_shared is a method of a Starmap: one has been made
CreateShared ==
    /\ cls.distribute # "unset"
    /\ cls.created < MaxShared
    /\ cls' = create_shared(cls)
    /\ UNCHANGED <<job, red, call, app, sup, zmq, made, st, pk, ms>>

Shutdown ==
    /\ cls' = shutdown(cls)
    /\ UNCHANGED <<job, red, call, app, sup, zmq, made, st, pk, ms>>

NextClass ==
    \/ ClassInit
    \/ CreateShared
    \/ Shutdown

SpecClass == InitClass /\ [][NextClass]_vars

\* --------------------------------- jobs with arguments that do not pickle
\* Some argument of the job cannot be pickled; the inline backend runs the
\* jobs of one task only.
InitPickle ==
    /\ distribute \in Backends
    /\ num_cores \in 1 .. MaxCores
    /\ task_args \in {[i \in 1 .. n |-> i] : n \in 1 .. MaxTasks}
    /\ distribute = "no" => Len(task_args) = 1
    /\ sized \in BOOLEAN
    /\ OQ_TASK_NO = None
    /\ mismatch = FALSE
    /\ split = NoSplit
    /\ red = NoReduce
    /\ unpicklable \in SUBSET (1 .. MaxTasks)
    /\ unpicklable # {}
    /\ unpicklable \subseteq 1 .. Len(task_args)
    /\ cls = NewClass
    /\ ms = NoSpawn
    /\ pk = NoPickling
    /\ st = NoSplitTask
    /\ made = NoTask
    /\ zmq = NoSender
    /\ sup = NoSupervisor
    /\ app = NoApply
    /\ call = NoCall
    /\ NewStarmap

SpecPickle == InitPickle /\ [][Next]_vars

\* ------------------------------- the monitor appended to the arguments
\* A Starmap is made for a task function and safely_call runs a function
\* for it: the task function itself, a function passed to submit, or the
\* function of a subtask-request. task_func and func are the names of the
\* last parameter of the two.
InitInject ==
    /\ NoJob
    /\ red = NoReduce
    /\ cls = NewClass
    /\ ms = NoSpawn
    /\ pk = NoPickling
    /\ st = NoSplitTask
    /\ made = NoTask
    /\ zmq = NoSender
    /\ sup = NoSupervisor
    /\ app = NoApply
    /\ call \in {[NoCall EXCEPT !.task_func = a, !.func = b, !.how = h,
                                !.stage = "new"]
                 : a \in ArgNames, b \in ArgNames,
                   h \in {"task_func", "submit", "subtask"}}
    /\ call.how = "task_func" => call.func = call.task_func

\* Starmap.__init__ sets monitor.inject
StarmapInit ==
    /\ call.stage = "new"
    /\ call' = [call EXCEPT !.stage = "made", !.inject = inject(call.task_func)]
    /\ UNCHANGED <<job, red, cls, app, sup, zmq, made, st, pk, ms>>

\* safely_call: if mon.inject: args += (mon,)
SafelyCallArgs ==
    /\ call.stage = "made"
    /\ call' = [call EXCEPT !.stage = "called", !.appended = call.inject]
    /\ UNCHANGED <<job, red, cls, app, sup, zmq, made, st, pk, ms>>

NextInject ==
    \/ StarmapInit
    \/ SafelyCallArgs

SpecInject == InitInject /\ [][NextInject]_vars

\* ------------------------------------------------ Starmap.apply alone
\* apply is called on a sequence of up to MaxItems items and up to two
\* other arguments
InitApply ==
    /\ NoJob
    /\ red = NoReduce
    /\ cls = NewClass
    /\ ms = NoSpawn
    /\ pk = NoPickling
    /\ st = NoSplitTask
    /\ made = NoTask
    /\ zmq = NoSender
    /\ sup = NoSupervisor
    /\ call = NoCall
    /\ app \in {[NoApply EXCEPT !.allargs = [arg0 |-> [i \in 1 .. n |-> i],
                                              args |-> r],
                                !.concurrent_tasks = c, !.maxweight = w,
                                !.stage = "new"]
                : n \in 0 .. MaxItems, r \in {<<>>, <<"a">>, <<"a", "b">>},
                  c \in {None} \cup (0 .. MaxItems),
                  w \in {None} \cup (0 .. 2)}

Apply ==
    /\ app.stage = "new"
    /\ \E a \in apply(app.allargs, app.concurrent_tasks, app.maxweight) :
          app' = [app EXCEPT !.blocks = a.blocks, !.taskargs = a.taskargs,
                             !.stage = "applied"]
    /\ UNCHANGED <<job, red, cls, call, sup, zmq, made, st, pk, ms>>

SpecApply == InitApply /\ [][Apply]_vars

\* ------------------------------------------------- a supervised job
\* supervise(pid, job_id) runs the message loop for a job that is running.
\* The job logs ERROR and FATAL messages, stores its status in the
\* database and exits, or crashes, at any time.
InitSupervise ==
    /\ NoJob
    /\ red = NoReduce
    /\ cls = NewClass
    /\ ms = NoSpawn
    /\ pk = NoPickling
    /\ st = NoSplitTask
    /\ made = NoTask
    /\ zmq = NoSender
    /\ call = NoCall
    /\ app = NoApply
    /\ sup = [NoSupervisor EXCEPT !.proc = "running", !.status = "running",
                                  !.state = "supervising"]

\* the job logs a message of a severe level
JobLogs ==
    /\ sup.proc = "running"
    /\ Len(sup.queue) + Len(sup.error_msgs) < MaxMsgs
    /\ \E level \in {"ERROR", "FATAL"} :
          sup' = [sup EXCEPT !.queue = Append(@, level)]
    /\ UNCHANGED <<job, red, cls, call, app, zmq, made, st, pk, ms>>

\* the job stores its final status
JobSetsStatus ==
    /\ sup.proc = "running"
    /\ sup.status = "running"
    /\ \E status \in {"succeeded", "failed"} :
          sup' = [sup EXCEPT !.status = status]
    /\ UNCHANGED <<job, red, cls, call, app, zmq, made, st, pk, ms>>

\* the job process exits, or crashes
JobExits ==
    /\ sup.proc = "running"
    /\ sup' = [sup EXCEPT !.proc = "exited"]
    /\ UNCHANGED <<job, red, cls, call, app, zmq, made, st, pk, ms>>

\* the message loop takes a message from the queue
OnMessage ==
    /\ sup.state = "supervising"
    /\ sup.queue # <<>>
    /\ \E u \in message_callback([sup EXCEPT !.queue = Tail(@)],
                                  Head(sup.queue)) : sup' = u
    /\ UNCHANGED <<job, red, cls, call, app, zmq, made, st, pk, ms>>

\* the message loop has waited for the timeout
OnTimeout ==
    /\ sup.state = "supervising"
    /\ sup' = timeout_callback(sup)
    /\ UNCHANGED <<job, red, cls, call, app, zmq, made, st, pk, ms>>

NextSupervise ==
    \/ JobLogs
    \/ JobSetsStatus
    \/ JobExits
    \/ OnMessage
    \/ OnTimeout

SpecSupervise == InitSupervise /\ [][NextSupervise]_vars

\* ------------------------------------------- the hosts of the tasks
\* The calls of submit of a job on the zmq backend: the main loop submits
\* without a host, but for the task that replaces one that has ended, which
\* it submits with the host of the ended task (a host a task was sent to).
InitZmq ==
    /\ NoJob
    /\ red = NoReduce
    /\ cls = NewClass
    /\ ms = NoSpawn
    /\ pk = NoPickling
    /\ st = NoSplitTask
    /\ made = NoTask
    /\ call = NoCall
    /\ app = NoApply
    /\ sup = NoSupervisor
    /\ zmq \in {[NoSender EXCEPT !.hosts = n] : n \in 1 .. MaxHosts}

\* self.submit(args) of _submit_many(howmany): no host is given
SubmitAny ==
    /\ zmq.hosts > 0
    /\ Len(zmq.sent) < MaxSends
    /\ zmq' = zmq_submit(pin(zmq, None), None)
    /\ UNCHANGED <<job, red, cls, call, app, sup, made, st, pk, ms>>

\* self._submit_many(1, res.workerid[0]) at the end of a task: the host is
\* the one of the task that has ended
SubmitReplacement ==
    /\ zmq.hosts > 0
    /\ Len(zmq.sent) < MaxSends
    /\ \E i \in 1 .. Len(zmq.sent) :
          zmq' = zmq_submit(pin(zmq, zmq.sent[i].to), zmq.sent[i].to)
    /\ UNCHANGED <<job, red, cls, call, app, sup, made, st, pk, ms>>

NextZmq ==
    \/ SubmitAny
    \/ SubmitReplacement

SpecZmq == InitZmq /\ [][NextZmq]_vars

\* --------------------------------------------- what a task produces
\* A task produces values of any kind, one at each turn of the loop of
\* safely_call, which makes a Result of each and sends it.
InitProduce ==
    /\ NoJob
    /\ red = NoReduce
    /\ cls = NewClass
    /\ ms = NoSpawn
    /\ pk = NoPickling
    /\ st = NoSplitTask
    /\ call = NoCall
    /\ app = NoApply
    /\ sup = NoSupervisor
    /\ zmq = NoSender
    /\ made = NoTask

Produce ==
    /\ made.exc = "none"
    /\ Len(made.vals) < MaxVals
    /\ \E val \in Produced : made' = send_produced(made, val)
    /\ UNCHANGED <<job, red, cls, call, app, sup, zmq, st, pk, ms>>

SpecProduce == InitProduce /\ [][Produce]_vars

\* ------------------------------------------------ split_task alone
\* The generator split_task on n elements, turn by turn; dt, the time since
\* the first slice was started, only grows.
InitSlices ==
    /\ NoJob
    /\ red = NoReduce
    /\ cls = NewClass
    /\ ms = NoSpawn
    /\ pk = NoPickling
    /\ call = NoCall
    /\ app = NoApply
    /\ sup = NoSupervisor
    /\ zmq = NoSender
    /\ made = NoTask
    /\ st \in {[NoSplitTask EXCEPT !.n = n, !.outs_per_task = o, !.it = "live"]
               : n \in 0 .. MaxElements, o \in 1 .. MaxShards}

\* func returns and dt <= duration, or the slices are over
SplitFast ==
    /\ st.it = "live"
    /\ st' = split_task_turn(st, FALSE)
    /\ UNCHANGED <<job, red, cls, call, app, sup, zmq, made, pk, ms>>

\* func returns and dt > duration
SplitSlow ==
    /\ st.it = "live"
    /\ st.i < Len(split_elems(st.n, st.outs_per_task))
    /\ st' = split_task_turn(st, TRUE)
    /\ UNCHANGED <<job, red, cls, call, app, sup, zmq, made, pk, ms>>

\* func raises: the exception ends the generator
SplitRaise ==
    /\ st.it = "live"
    /\ st.i < Len(split_elems(st.n, st.outs_per_task))
    /\ st' = [st EXCEPT !.it = "raised"]
    /\ UNCHANGED <<job, red, cls, call, app, sup, zmq, made, pk, ms>>

NextSlices ==
    \/ SplitFast
    \/ SplitSlow
    \/ SplitRaise

SpecSlices == InitSlices /\ [][NextSlices]_vars

\* ----------------------------------------------- pickle_sequence alone
\* pickle_sequence is called on an iterable of objects. If the iterable
\* holds its objects (a list, a tuple) they are all alive during the call
\* and an id is the id of one object, which may occur more than once. If it
\* makes them as it goes (a generator) an object dies when the loop takes
\* the one after the next, and a new object may get the id of a dead one:
\* only two objects in a row are sure to have different ids.
InitSequence ==
    /\ NoJob
    /\ red = NoReduce
    /\ cls = NewClass
    /\ ms = NoSpawn
    /\ call = NoCall
    /\ app = NoApply
    /\ sup = NoSupervisor
    /\ zmq = NoSender
    /\ made = NoTask
    /\ st = NoSplitTask
    /\ \E m \in 0 .. MaxObjects :
          \/ pk \in {[NoPickling EXCEPT
                         !.objects = [i \in 1 .. m |-> [id |-> o[i],
                                                        obj |-> h[o[i]]]]]
                     : h \in [1 .. MaxIds -> Objects],
                       o \in [1 .. m -> 1 .. MaxIds]}
          \/ pk \in {[NoPickling EXCEPT !.held = FALSE, !.objects = o]
                     : o \in {x \in [1 .. m -> [id : 1 .. MaxIds, obj : Objects]] :
                                \A i \in 1 .. m - 1 : x[i].id # x[i + 1].id}}

PickleSequence ==
    /\ ~pk.returned
    /\ pk' = pickle_sequence(pk)
    /\ UNCHANGED <<job, red, cls, call, app, sup, zmq, made, st, ms>>

SpecSequence == InitSequence /\ [][PickleSequence]_vars

\* --------------------------------------------------- multispawn alone
InitSpawn ==
    /\ NoJob
    /\ red = NoReduce
    /\ cls = NewClass
    /\ call = NoCall
    /\ app = NoApply
    /\ sup = NoSupervisor
    /\ zmq = NoSender
    /\ made = NoTask
    /\ st = NoSplitTask
    /\ pk = NoPickling
    /\ ms \in {[NoSpawn EXCEPT !.num_cores = c, !.pc = "while allargs",
                               !.allargs = [i \in 1 .. n |-> i]]
               : c \in 1 .. MaxCores, n \in 0 .. MaxArgs}

\* multispawn goes from a loop test to the next one; where it calls
\* wait(procs), wait returns some of the processes that have finished
SpawnStep ==
    /\ \E ready \in SUBSET (ms.procs \ ms.alive) :
          /\ ms' = multispawn(ms, ready)
          /\ ms' # ms
    /\ UNCHANGED <<job, red, cls, call, app, sup, zmq, made, st, pk>>

\* a process that multispawn started finishes
ProcessEnds ==
    /\ \E p \in ms.alive : ms' = [ms EXCEPT !.alive = @ \ {p}]
    /\ UNCHANGED <<job, red, cls, call, app, sup, zmq, made, st, pk>>

NextSpawn ==
    \/ SpawnStep
    \/ ProcessEnds

SpecSpawn == InitSpawn /\ [][NextSpawn]_vars

C2_SomeTerminalResult ==
    \A t \in TaskNos :
       worker[t].pc \in {"done", "crashed"} =>
          NEnds(ingress[t]) + NFailures(ingress[t]) >= 1

\* ---- what a step of the main loop did, read off the two states
InFlight == smap.todo
Queued == Len(smap.task_queue)
Done == Len(smap.tasks) - smap.todo

\* an iteration of `while self.todo` that ran to its end
Iteration == pc = "loop" /\ smap.todo # 0 /\ error'.src # "submit"

\* the iteration read the oldest unread Result of task t
ReadFrom(t) ==
    /\ Iteration
    /\ ingress[t] # <<>>
    /\ IF pc' = "raised" THEN error'.task = t
       ELSE ingress'[t] = Tail(ingress[t])
ReadEnd == \E t \in TaskNos : ReadFrom(t) /\ IsEnd(Head(ingress[t]))
ReadSub == \E t \in TaskNos : ReadFrom(t) /\ IsSub(Head(ingress[t]))

\* submits that OQ_TASK_NO made skip their task, in this step
Skipped ==
    (smap'.task_no - smap.task_no) - (Len(smap'.tasks) - Len(smap.tasks))

\* the Results of a channel that the consumer is to be given, as in put
IsValue(res) == ~IsEnd(res) /\ ~IsFailure(res) /\ ~IsSub(res)
Values(q) == LET v == SelectSeq(q, IsValue) IN [i \in 1 .. Len(v) |-> v[i].k]

\* C3 (as the code has it): the in-flight count is at most the tasks seeded
\* at the start of the loop, min(num_cores, n) for a sized task_args and all
\* n for an unsized one, plus one for each subtask-request queued so far.
C3_TodoBound ==
    smap.todo <= (IF sized THEN Min(num_cores, Len(task_args))
                  ELSE Len(task_args)) + nreq

\* a sized job whose in-flight count went over num_cores by a subtask-request
C3_Witness ==
    /\ pc = "loop"
    /\ sized
    /\ nreq = 1
    /\ smap.todo = num_cores + 1

\* C3 as stated: the in-flight count is at most num_cores
C3_TodoAtMostCores == smap.todo <= num_cores

\* C4 (as the code has it): across an iteration of the main loop the sum
\* in-flight + queued + done grows by one when the iteration queues a
\* subtask-request, shrinks by one for each task that OQ_TASK_NO makes it
\* skip, and is otherwise unchanged.
C4_SumChange ==
    [][Iteration =>
          InFlight' + Queued' + Done' =
              InFlight + Queued + Done + (nreq' - nreq) - Skipped]_vars

\* the sum has grown by one over the number of tasks of the job
C4_Witness ==
    /\ pc = "loop"
    /\ OQ_TASK_NO = None
    /\ nreq = 1
    /\ InFlight + Queued + Done = Len(task_args) + 1

\* C4 as stated: the sum is the same after an iteration as before it
C4_SumConstant ==
    [][Iteration => InFlight' + Queued' + Done' = InFlight + Queued + Done]_vars

\* C5 (as the code has it): across an iteration of the main loop queued +
\* in-flight grows by one if the iteration read a subtask-request (of this
\* job), shrinks by one if it read an end-of-task, and is otherwise unchanged.
C5_OutstandingChange ==
    [][Iteration =>
          Queued' + InFlight' =
              Queued + InFlight + (IF ReadSub THEN 1 ELSE 0)
                                - (IF ReadEnd THEN 1 ELSE 0)]_vars

\* more tasks are outstanding than the job had at its start
C5_Witness ==
    /\ pc = "loop"
    /\ Queued + InFlight > Len(task_args)

\* C5 as stated: queued + in-flight does not grow over an iteration
C5_OutstandingNeverGrows ==
    [][Iteration => Queued' + InFlight' <= Queued + InFlight]_vars

\* C6: while the iteration has not raised, what the consumer was given from
\* a task followed by the values of that task still unread is what the task
\* has put on the ingress: nothing dropped, nothing given twice (so that
\* all was given when its end-of-task, the last Result of a task, is read).
\* When the iteration has stopped the in-flight count is zero, nothing is
\* unread and no task is running.
C6_EachValueOnce ==
    /\ pc \in {"new", "iter", "loop", "done"} =>
          \A t \in TaskNos : yielded[t] \o Values(ingress[t]) = put[t]
    /\ pc = "done" =>
          /\ smap.todo = 0
          /\ \A t \in TaskNos : /\ ingress[t] = <<>>
                                 /\ worker[t].pc \in {"idle", "done"}

\* the consumer was given all the values of two tasks, whose end-of-task
\* Results are the next to be read
C6_Witness ==
    /\ pc = "loop"
    /\ \E t1, t2 \in TaskNos :
          /\ t1 # t2
          /\ yielded[t1] = <<0, 1>> /\ put[t1] = <<0, 1>>
          /\ yielded[t2] = <<1>> /\ put[t2] = <<1>>
          /\ Len(ingress[t1]) = 1 /\ IsEnd(ingress[t1][1])
          /\ Len(ingress[t2]) = 1 /\ IsEnd(ingress[t2][1])

ReadFailure(t) == ReadFrom(t) /\ IsFailure(Head(ingress[t]))

\* C8 (as the code has it): when the main loop reads a failure Result of a
\* task, the consumer has been given every value the task put, that next()
\* yields nothing and raises: MemoryError if the dispatcher is over its hard
\* memory limit, else RuntimeError if the task raised a KeyError or a
\* subclass of it, else an error of the kind the task raised; in the last
\* two cases the message holds the backtrace, the kind and the message of
\* the failure.
C8_FailureSurfaces ==
    [][\A t \in TaskNos : ReadFailure(t) =>
          LET f == Head(ingress[t])
          IN /\ yielded[t] = put[t]
             /\ yielded' = yielded
             /\ pc' = "raised"
             /\ \/ /\ error'.src = "check_mem_usage"
                   /\ error'.etype = "MemoryError"
                \/ /\ error'.src = "Result.get"
                   /\ error'.etype = (IF IsKeyError(f.etype) THEN "RuntimeError"
                                      ELSE f.etype)
                   /\ error'.msg = [tb_str |-> f.tb_str, name |-> f.etype,
                                    val |-> f.mon.task_no]
                   /\ f.tb_str # ""]_vars

\* a task raised ValueError after a value, and the consumer got the value
\* and then the ValueError
C8_Witness ==
    /\ pc = "raised"
    /\ error.src = "Result.get"
    /\ error.etype = "ValueError"
    /\ error.task # None
    /\ yielded[error.task] = <<1>>
    /\ put[error.task] = <<1>>

\* C8 as stated, for the error that Result.get raises: it is of the kind
\* the task raised
C8_SameKind ==
    [][\A t \in TaskNos : (ReadFailure(t) /\ error'.src = "Result.get") =>
          error'.etype = Head(ingress[t]).etype]_vars

\* C9: when Result.get raises for a failure Result, it raises the kind of
\* the failure, except RuntimeError for KeyError and its subclasses; the
\* message holds the backtrace and the original kind.
C9_ErrorMapping ==
    [][\A t \in TaskNos : (ReadFailure(t) /\ error'.src = "Result.get") =>
          LET f == Head(ingress[t])
          IN /\ error'.etype =
                   (IF f.etype \in {"KeyError", "KeyErrorSubclass"}
                    THEN "RuntimeError" ELSE f.etype)
             /\ error'.msg.tb_str = f.tb_str
             /\ error'.msg.name = f.etype]_vars

\* a subclass of KeyError was raised to the consumer as a RuntimeError
C9_Witness ==
    /\ pc = "raised"
    /\ error.src = "Result.get"
    /\ error.etype = "RuntimeError"
    /\ error.msg.name = "KeyErrorSubclass"

\* C10: an iteration of the main loop on a Result of another job, whatever
\* its kind, gives nothing to the consumer, raises nothing, and leaves the
\* in-flight count, the queue, the submitted tasks and the task counter as
\* they were. (The iterations on a Result of another job are the steps of
\* the running loop that read no Result of a task of this job, ingress
\* unchanged, and in which no worker moves.)
C10_ForeignDiscarded ==
    [][(pc = "loop" /\ smap.todo # 0 /\ ingress' = ingress /\ worker' = worker)
          => /\ UNCHANGED <<yielded, pc, error, nreq, put, first_time>>
             /\ smap'.todo = smap.todo
             /\ smap'.task_queue = smap.task_queue
             /\ smap'.tasks = smap.tasks
             /\ smap'.task_no = smap.task_no]_vars

\* the loop has run an iteration (log_percent has set prev_percent) while
\* the two Results of the only task, run inline, are both unread: what it
\* read was a Result of another job
C10_Witness ==
    /\ pc = "loop"
    /\ smap.prev_percent = 0
    /\ smap.task_no = 1
    /\ put[0] = <<1>>
    /\ Len(ingress[0]) = 2
    /\ IsEnd(ingress[0][2])

\* C11 as stated, in its finite form: with OQ_TASK_NO = K set, only the task
\* with ordinal K is ever started, and when the iteration has ended without
\* an error a job that has a task K has run it.
C11_OnlyTaskK ==
    OQ_TASK_NO # None =>
       /\ \A t \in TaskNos : worker[t].pc # "idle" => t = OQ_TASK_NO
       /\ (pc = "done" /\ OQ_TASK_NO < Len(task_args)) =>
              worker[OQ_TASK_NO].pc = "done"

\* C12 as stated, in its finite form. In a split_task job whose tasks slice
\* their elements into n slices and take longer than duration on the first:
\* when the iteration has ended every task has requested n - 1 subtasks,
\* every subtask was queued and run (nothing is queued, n task numbers were
\* given out for each task) and the consumer was given exactly one value
\* from each task and each subtask, n for each task in all.
C12_SplitValues ==
    (pc = "done" /\ split # NoSplit /\ split.slowat = 1) =>
       LET n == split.shards
           tasks == Len(task_args)
       IN /\ nreq = tasks * (n - 1)
          /\ smap.task_queue = <<>>
          /\ smap.task_no = tasks * n
          /\ \A t \in TaskNos : t < tasks * n => worker[t].pc = "done"
          /\ SumOver([t \in TaskNos |-> Len(yielded[t])], TaskNos) = tasks * n

Commutative(agg) == \A x, y \in Results : agg[<<x, y>>] = agg[<<y, x>>]
Associative(agg) ==
    \A x, y, z \in Results :
       agg[<<agg[<<x, y>>], z>>] = agg[<<x, agg[<<y, z>>]>>]

\* C13 (as the code has it): reduce folds agg over the results from the
\* left, in the order they arrive; whenever agg is commutative and
\* associative what it returns for any arrival order of the same values is
\* what it returns for them in the order values.
C13_OrderIndependent ==
    (red.returned # None /\ Commutative(red.agg) /\ Associative(red.agg)) =>
       red.returned = reduce(red.agg, red.acc, red.values)

\* reduce has returned for an agg that is commutative and associative and
\* depends on both its arguments, with two values arrived in the other order
C13_Witness ==
    /\ red.returned # None
    /\ Commutative(red.agg) /\ Associative(red.agg)
    /\ red.agg[<<0, 0>>] # red.agg[<<0, 1>>]
    /\ red.agg[<<1, 0>>] # red.agg[<<1, 1>>]
    /\ red.values = <<0, 1>>
    /\ red.arrived = <<1, 0>>

\* C13 as stated: the same, whenever agg is commutative
C13_CommutativeSuffices ==
    (red.returned # None /\ Commutative(red.agg)) =>
       red.returned = reduce(red.agg, red.acc, red.values)

\* what a task of a split_task job yields to the consumer, from the task
\* function and its arguments alone: a task (t < tasks) the values of its
\* first slowat slices, a subtask the value of its slice
SplitValues(t) ==
    LET tasks == Len(task_args)
    IN IF t < tasks THEN [i \in 1 .. split.slowat |-> i]
       ELSE IF t < tasks + tasks * (split.shards - split.slowat) THEN <<1>>
       ELSE <<>>

C15_ShutdownIdempotent ==
    LET first == shutdown(cls)
        second == shutdown(first)
    IN /\ first.exc = "none" => second = first
       /\ (cls.pool = "none" /\ cls.executor = "none" /\ cls.shared = <<>>) =>
             first = [cls EXCEPT !.last = "shutdown", !.exc = "none"]

\* C16 as stated: when a call of shutdown has returned, no buffer made by
\* create_shared exists any more, and there is no pool.
C16_AllReleased ==
    (cls.last = "shutdown" /\ cls.exc = "none") =>
       /\ cls.linked = {}
       /\ cls.pool = "none"

\* the main loop waits for a Result while nothing is unread and no worker
\* is running: nothing but Results of other jobs can arrive
WaitsForEver ==
    /\ pc = "loop"
    /\ smap.todo # 0
    /\ \A t \in TaskNos : /\ ingress[t] = <<>>
                           /\ worker[t].pc \notin {"start", "loop"}

\* C17 as stated, in its finite form: when a worker has terminated without
\* an end-of-task for its task, the main loop is not left waiting for a
\* Result that cannot come.
C17_LossDetected ==
    (\E t \in TaskNos : worker[t].pc = "crashed") => ~WaitsForEver

\* C20 as stated, in its finite form (under SpecWorker ingress[t] is all
\* that task t has sent): a task that ended at the hard memory limit has
\* sent a failure Result that holds the MemoryError.
C20_HardLimitFailure ==
    \A t \in TaskNos :
       worker[t].pc = "crashed" =>
          \E i \in 1 .. Len(ingress[t]) :
             IsFailure(ingress[t][i]) /\ ingress[t][i].etype = "MemoryError"

\* the backend that submit takes
Dist == IF num_tasks = 1 \/ OQ_TASK_NO # None THEN "no" ELSE distribute

\* C19 (as the code has it): a call of submit for a task with an argument
\* that cannot be pickled, made in any state in which the job can submit,
\* raises TypeError if the backend it takes is not the inline one, and then
\* it starts no worker, sends nothing and leaves the submitted tasks, the
\* in-flight count and the task counter as they were (the ingress is bound
\* if it was not); with the inline backend, which pickles nothing, it
\* raises no TypeError. When a job has ended with that TypeError, the
\* argument of the next task to submit is one that cannot be pickled and
\* every task before it was counted and submitted.
C19_PickleError ==
    /\ (pc \in {"new", "iter", "loop"} /\ smap.task_no \in TaskNos) =>
          \A i \in 1 .. Len(task_args) :
             \A x \in submit(D, [from |-> None, i |-> i], task_func, "None") :
                IF i \in unpicklable /\ Dist # "no"
                THEN /\ x.exc = "TypeError"
                     /\ x.worker = worker /\ x.ingress = ingress
                     /\ x.tasks = smap.tasks
                     /\ x.todo = smap.todo
                     /\ x.task_no = smap.task_no
                     /\ x.task_queue = smap.task_queue
                     /\ x.socket = "bound"
                ELSE x.exc # "TypeError"
    /\ (pc = "raised" /\ error.etype = "TypeError") =>
          /\ error.src = "submit"
          /\ Dist # "no"
          /\ smap.task_no = Len(smap.tasks)
          /\ smap.task_no < Len(task_args)
          /\ task_args[smap.task_no + 1] \in unpicklable

\* the first task of a job was submitted to a pool, and the job has ended
\* with the TypeError of the second, which is not counted
C19_Witness ==
    /\ pc = "raised"
    /\ error.etype = "TypeError"
    /\ distribute = "processpool"
    /\ unpicklable = {2}
    /\ smap.tasks = <<0>>
    /\ smap.task_no = 1

\* C19 as stated: a call of submit for a task with an argument that cannot
\* be pickled raises and leaves the submitted tasks, the in-flight count
\* and the task counter as they were
C19_AlwaysRaises ==
    (pc \in {"new", "iter", "loop"} /\ smap.task_no \in TaskNos
       /\ (OQ_TASK_NO # None => smap.task_no = OQ_TASK_NO)) =>
       \A i \in unpicklable :
          \A x \in submit(D, [from |-> None, i |-> i], task_func, "None") :
             /\ x.exc = "TypeError"
             /\ x.tasks = smap.tasks
             /\ x.todo = smap.todo
             /\ x.task_no = smap.task_no

\* the ingress is not bound before the first call of submit, and is bound
\* by it: a call that returns is counted in task_no (also when OQ_TASK_NO
\* makes it skip the task); a call that raises ends the job
BoundAtFirstSubmit ==
    /\ pc = "new" => smap.socket = "unbound"
    /\ (pc = "iter" /\ sized) => smap.socket = "unbound"
    /\ smap.task_no > 0 => smap.socket # "unbound"
    /\ smap.socket = "unbound" =>
          /\ smap.task_no = 0 /\ smap.tasks = <<>> /\ pc # "loop"
          /\ \A t \in TaskNos : worker[t].pc = "idle" /\ ingress[t] = <<>>
    /\ (pc = "done" /\ smap.task_no = 0) => smap.socket = "unbound"

\* the ingress is closed when the main loop has terminated, and only then
ClosedAtEnd ==
    /\ (pc = "done" /\ smap.task_no > 0) => smap.socket = "closed"
    /\ smap.socket = "closed" => (pc = "done" /\ smap.todo = 0)

\* C18: the ingress is bound by the first call of submit and not before,
\* and a job that never calls submit never binds it; when the main loop
\* finds the in-flight count at zero after the end-of-task Results of its
\* tasks (some task was submitted), its next step is to terminate and to
\* close the ingress, and the ingress is closed at no other time.
C18_IngressLifeCycle ==
    /\ [](BoundAtFirstSubmit /\ ClosedAtEnd)
    /\ [][(pc = "loop" /\ smap.todo = 0 /\ smap.tasks # <<>>) =>
             (pc' = "done" /\ smap'.socket = "closed")]_vars

\* the main loop of a job of two tasks under a pool has terminated and
\* closed the ingress
C18_Witness ==
    /\ pc = "done"
    /\ distribute = "processpool"
    /\ smap.task_no = 2
    /\ smap.socket = "closed"
    /\ \A t \in 0 .. 1 : worker[t].pc = "done"

\* C21 as stated, in its finite form: a task sends at most one memory
\* warning, the dispatcher takes the warning Results for itself (to log
\* them) and the job goes on as without them: the consumer is given the
\* values of the tasks and nothing else.
C21_WarningKeptFromConsumer ==
    LET IsWarning(k) == k = 0
    IN \A t \in TaskNos :
          /\ Len(SelectSeq(put[t], IsWarning)) <= 1
          /\ SelectSeq(yielded[t], IsWarning) = <<>>

\* C22: a worker of another engine version (or dbserver host) never runs
\* the task function (its generator is never advanced and has yielded and
\* raised nothing) and all it sends, after the memory warning if any, are
\* failure Results that hold a RuntimeError. When the main loop reads one
\* the consumer is given nothing and the iteration raises: the RuntimeError
\* of the failure, with its backtrace (or MemoryError, if the dispatcher
\* itself is over its hard memory limit at that moment).
C22_VersionMismatch ==
    /\ [](\A t \in TaskNos : (mismatch /\ worker[t].remote) =>
            /\ worker[t].nyield = 0
            /\ worker[t].it = "live"
            /\ worker[t].exc = "none"
            /\ \A i \in 1 .. Len(put[t]) : put[t][i] = 0
            /\ \A i \in 1 .. Len(ingress[t]) :
                  \/ ingress[t][i].msg = "warning" /\ i = 1
                  \/ /\ IsFailure(ingress[t][i])
                     /\ ingress[t][i].etype = "RuntimeError")
    /\ [][\A t \in TaskNos :
            (mismatch /\ worker[t].remote /\ ReadFailure(t)) =>
               /\ pc' = "raised"
               /\ yielded' = yielded
               /\ error'.task = t
               /\ \/ /\ error'.src = "check_mem_usage"
                     /\ error'.etype = "MemoryError"
                  \/ /\ error'.src = "Result.get"
                     /\ error'.etype = "RuntimeError"
                     /\ error'.msg.name = "RuntimeError"
                     /\ error'.msg.tb_str # ""]_vars

\* the failure of a worker of another version was raised to the consumer
C22_Witness ==
    /\ pc = "raised"
    /\ mismatch
    /\ error.src = "Result.get"
    /\ error.etype = "RuntimeError"
    /\ error.msg.name = "RuntimeError"
    /\ error.task # None

\* C23 as stated: when safely_call has made the arguments of the function
\* it runs, the monitor was appended to them if and only if the name of the
\* last parameter of that function begins or ends with mon.
C23_InjectedIffMonName ==
    call.stage = "called" => (call.appended <=> inject(call.func))

\* C24 as stated (under SpecWorker ingress[t] is all that task t has sent):
\* the length of the payload of the end-of-task Result of a task is the sum
\* of the bytes of the payloads of all the Results the task sent before it.
C24_EndLengthIsBytesSent ==
    \A t \in TaskNos :
       \A i \in 1 .. Len(ingress[t]) :
          IsEnd(ingress[t][i]) =>
             ingress[t][i].len = SumBytes(SubSeq(ingress[t], 1, i - 1))

C26_SupervisorOutcome ==
    sup.state \notin {"none", "supervising"} =>
       /\ sup.proc = "exited"
       /\ sup.cleanups = 1
       /\ Len(sup.signalled) = 1
       /\ sup.signalled[1] = "succeeded" => sup.status = "succeeded"
       /\ sup.status # "succeeded" => sup.signalled[1] = "failed"
       /\ sup.status # "running"

\* the queue entry of the subtask that the Result res requests
Requested(res) ==
    [func |-> res.func, args |-> [from |-> res.mon.task_no, i |-> res.k]]

C29_PinForOneTaskOnly ==
    \A i \in 1 .. Len(zmq.sent) :
       LET IsUnpinned(x) == x.host = None
           before == Len(SelectSeq(SubSeq(zmq.sent, 1, i - 1), IsUnpinned))
       IN IF zmq.sent[i].host # None
          THEN zmq.sent[i].to = zmq.sent[i].host
          ELSE zmq.sent[i].to = (before % zmq.hosts) + 1

\* C30 as stated. Under SpecWorker ingress[t] is all that task t has sent:
\* a task sends at most one failure Result, after it the task is not called
\* again (its generator is finished and no Result of the task follows the
\* failure, but the end-of-task), and safely_call is leaving its loop (it
\* has returned, or its next turn gets StopIteration and returns).
C30_FailureEndsTask ==
    \A t \in TaskNos :
       LET out == ingress[t]
       IN /\ NFailures(out) <= 1
          /\ \A i \in 1 .. Len(out) :
                IsFailure(out[i]) =>
                   /\ worker[t].it = "finished"
                   /\ worker[t].pc \in {"loop", "done"}
                   /\ \A j \in i + 1 .. Len(out) : IsEnd(out[j])

\* C31 as stated. Under SpecWorker ingress[t] is all that task t has sent:
\* the worker has checked the memory at each Result its loop has sent (the
\* values, subtask-requests and failures of the task and its end-of-task),
\* so it has made at least as many checks as it has sent such Results.
C31_MemoryCheckedAtEachEmit ==
    \A t \in TaskNos :
       LET IsEmit(res) == res.msg # "warning"
       IN Len(SelectSeq(ingress[t], IsEmit)) <= mem_checks(worker[t])

\* C32 as stated. smap.prev_percent is the last percent reported (None
\* before the first call of log_percent, which reports nothing). log_percent
\* never raises ZeroDivisionError; what is reported is within 0..100; a
\* job that has submitted tasks and whose main loop has ended normally has
\* reported 100; and each line reports more than the line before it.
C32_ProgressLines ==
    /\ [](/\ error.src # "log_percent"
          /\ smap.prev_percent \in {None} \cup 0 .. 100
          /\ (pc = "done" /\ smap.socket # "unbound") =>
                smap.prev_percent = 100)
    /\ [][smap'.prev_percent # smap.prev_percent =>
             IF smap.prev_percent = None THEN smap'.prev_percent = 0
             ELSE smap'.prev_percent > smap.prev_percent]_vars

\* C33 as stated, (callable, tail_args) being read as a tuple with a
\* callable first item and any number of other items: of every value a task
\* has produced a Result was made and sent, a subtask-request if the value
\* is such a tuple and a value Result if it is anything else (a mapping,
\* None, the empty tuple, any other tuple or object).
C33_SubtaskIffCallableTuple ==
    /\ made.exc = "none"
    /\ Len(made.sent) = Len(made.vals)
    /\ \A i \in 1 .. Len(made.sent) :
          LET val == made.vals[i]
              IsRequest == /\ val.type = "tuple"
                           /\ val.items # <<>>
                           /\ callable(val.items[1])
          IN made.sent[i].kind = (IF IsRequest THEN "subtask-request"
                                  ELSE "value")

\* C34: split_task slices its n elements into min(outs_per_task, n) slices
\* that are disjoint and cover them. The slices func has run on and the
\* slices yielded as subtask-requests are, in this order, the first slices
\* of the list, each one once: none is both run and requested, the first is
\* run inline, slices are requested only by the turn that ends the
\* generator, and when the generator has ended without an exception every
\* slice has been run or requested.
C34_EverySliceOnce ==
    LET se == split_elems(st.n, st.outs_per_task)
        both == st.ran \o st.emitted
    IN /\ Len(se) = Min(st.outs_per_task, st.n)
       /\ \A e \in 1 .. st.n :
             Cardinality({k \in 1 .. Len(se) : e \in se[k]}) = 1
       /\ \A k \in 1 .. Len(se) : se[k] # {} /\ se[k] \subseteq 1 .. st.n
       /\ Len(both) <= Len(se)
       /\ both = SubSeq(se, 1, Len(both))
       /\ st.emitted # <<>> => (st.ran # <<>> /\ st.it = "finished")
       /\ st.it = "finished" => both = se

\* the first of three slices of five elements took longer than duration:
\* it was run inline and the other two were requested as subtasks
C34_Witness ==
    /\ st.it = "finished"
    /\ st.n = 5
    /\ Len(st.ran) = 1
    /\ Len(st.emitted) = 2

\* C35: a step of Starmap.init (the only step that ends with last = "init")
\* leaves the SIGTERM and SIGINT handlers of the parent as they were before
\* the call; it makes a pool only when there is none, and the children of a
\* process pool are spawned with SIGTERM at the default and SIGINT ignored.
C35_HandlersRestored ==
    /\ [][(cls'.last = "init" /\ cls' # cls) =>
             /\ cls'.SIGTERM = cls.SIGTERM
             /\ cls'.SIGINT = cls.SIGINT
             /\ cls.pool # "none" =>
                   (cls'.pool = cls.pool /\ cls'.spawned = cls.spawned)
             /\ (cls.pool = "none" /\ cls'.pool = "processpool") =>
                   cls'.spawned = [SIGTERM |-> "SIG_DFL", SIGINT |-> "SIG_IGN"]
          ]_vars
    /\ [](cls.pool = "processpool" =>
             cls.spawned = [SIGTERM |-> "SIG_DFL", SIGINT |-> "SIG_IGN"])

\* init has made a process pool in a parent that has its own handlers for
\* both signals: the children were spawned with other ones
C35_Witness ==
    /\ cls.last = "init"
    /\ cls.pool = "processpool"
    /\ cls.SIGTERM = "handler"
    /\ cls.SIGINT = "handler"
    /\ cls.spawned = [SIGTERM |-> "SIG_DFL", SIGINT |-> "SIG_IGN"]

\* C36 as stated: the list pickle_sequence returns has the length of its
\* argument; its i-th item is the i-th object itself if that was a Pickled
\* already, and otherwise a new Pickled that unpickles to the value of the
\* i-th object, as Pickled(obj) would. For objects that are in memory
\* together, two items are one and the same Pickled iff they stand for one
\* and the same object, and pickle.dumps was called once for each distinct
\* object that was not a Pickled.
C36_PickleSequence ==
    pk.returned =>
       LET arg(i) == pk.objects[i].obj
           n == Len(pk.objects)
       IN /\ Len(pk.out) = n
          /\ \A i \in 1 .. n :
                IF arg(i).isPickled
                THEN pk.out[i] = pk.objects[i]
                ELSE /\ pk.out[i].id > MaxIds
                     /\ pk.out[i].obj = Pickled(arg(i))
                     /\ unpickle(pk.out[i].obj) = arg(i)
          /\ pk.held =>
                /\ \A i, j \in 1 .. n :
                      (pk.out[i].id = pk.out[j].id) <=>
                         (pk.objects[i].id = pk.objects[j].id)
                /\ pk.ndumps = Cardinality({pk.objects[i].id : i \in
                                              {j \in 1 .. n : ~arg(j).isPickled}})

\* C37 as stated: whenever the main loop is at its test with no task in
\* flight (todo = 0) the queue is empty, and so it is when the loop has
\* terminated normally: every task of task_args and every subtask that was
\* requested has been submitted.
C37_NothingLeftQueued ==
    /\ (pc = "loop" /\ smap.todo = 0) => smap.task_queue = <<>>
    /\ pc = "done" => smap.task_queue = <<>>

\* C38 as stated: every item the consumer was given from task t is a value
\* that the task function produced (the k-th it produced, k >= 1, sent to
\* be yielded); nothing else that travels on the ingress is given to it.
C38_OnlyTaskValues ==
    \A t \in TaskNos :
       \A i \in 1 .. Len(yielded[t]) :
          /\ yielded[t][i] >= 1
          /\ \E j \in 1 .. Len(put[t]) : put[t][j] = yielded[t][i]

\* C39 as stated: at the test of the main loop todo is the number of the
\* tasks that were dispatched to a backend and whose end-of-task has not
\* been read yet (a task that has returned and has no end-of-task left
\* unread is over), so that the loop never waits with every dispatched
\* task over; and log_percent raises no error, whatever OQ_TASK_NO is.
C39_TodoIsInFlight ==
    LET Over(t) == worker[t].pc = "done" /\ NEnds(ingress[t]) = 0
        Dispatched(t) == worker[t].pc # "idle"
    IN /\ pc = "loop" =>
             smap.todo = Cardinality({t \in TaskNos :
                                         Dispatched(t) /\ ~Over(t)})
       /\ error.src # "log_percent"

\* C40: the processes multispawn has started are those of the first items
\* of allargs, one for each, in the order of allargs; the ones alive are in
\* procs and are never more than num_cores; and when multispawn has
\* returned it has started one process for every item and all have
\* finished.
C40_Multispawn ==
    LET n == Len(ms.started) + Len(ms.allargs)
    IN /\ ms.started = [i \in 1 .. Len(ms.started) |-> i]
       /\ ms.allargs = [i \in 1 .. Len(ms.allargs) |-> Len(ms.started) + i]
       /\ ms.alive \subseteq ms.procs
       /\ Cardinality(ms.alive) <= ms.num_cores
       /\ ms.pc = "returned" =>
             /\ ms.allargs = <<>>
             /\ ms.alive = {}
             /\ ms.procs = {}

\* num_cores processes are alive while an item of allargs is still to be
\* started: multispawn is waiting for one of them
C40_Witness ==
    /\ ms.num_cores = 2
    /\ Cardinality(ms.alive) = 2
    /\ ms.allargs # <<>>
    /\ ms.pc = "while len(procs)"

====
